---- MODULE Spec2Model ----
(***************************************************************************)
(* State-machine model of the dog trainer's three services:                *)
(*   - the WebSocket mediator (src/src/ws_mediator.py),                    *)
(*   - the session controller (src/src/main.py),                           *)
(*   - the Influx collector   (src/src/influx_collector.py).               *)
(* Each service is a process of its own in the repository, so each has its *)
(* own specification here (HubSpec, CtlSpec, ColSpec) over its own         *)
(* variables; the other services' variables stay unchanged.  The further   *)
(* specifications look at one service more closely: CtlThreadSpec splits   *)
(* the controller's steps between its threads, ColFullSpec starts the      *)
(* collector with a nearly full buffer, ColStoreSpec lets its store fail,  *)
(* ColLinkSpec follows its connection to the device, AudioSpec runs the    *)
(* controller and the collector together over that connection, and WsSpec  *)
(* is the controller's own WebSocket server (src/src/host_comms.py).       *)
(***************************************************************************)
EXTENDS Integers, Sequences, FiniteSets, TLC

(***************************************************************************)
(* Bounds of the model.                                                    *)
(***************************************************************************)
\* number of WebSocket connections the mediator ever accepts
NConn == 3
\* number of text frames and HTTP requests the mediator handles in all
MaxFrames == 4
\* number of times the controller's clock is seen to advance
MaxTicks == 3
\* number of messages the collector receives
MaxEvents == 4
\* number of _send_via_ws calls of the device's WebSocket server
MaxSends == 2

(***************************************************************************)
(* State.                                                                  *)
(***************************************************************************)
\* ws_mediator.py
VARIABLES
    sock,       \* per connection: "new" (not yet accepted), "open", "closed"
    hpc,        \* per connection: where its ws_handler coroutine stands
    role,       \* per connection: ws_handler's local variable `role`
    DEVICE,     \* module global DEVICE
    UIS,        \* module global UIS
    bc,         \* per connection: the _broadcast_ui call its handler is inside
    lastDevReg, \* history: the connection whose register(role:device) was handled last
    last,       \* history: the frame or request handled in the step just taken,
                \* the reply and the direct sends; NoLast after any other step
    nframes     \* history: the number of frames and HTTP requests handled so far

\* main.py
VARIABLES
    mode_state,     \* main's dict mode_state
    MODE,           \* config.MODE
    previous_label, \* main's local previous_label
    now,            \* the wall clock, time.time(), in seconds
    ticks,          \* history: how often the clock advanced
    out,            \* history: what the last operation was given and did
    forced,         \* history: an override_treat{mode:force} was received and no
                    \* step has run since in waiting_sit, in time and not disabled
    autos,          \* history: the times `now` of the automatic_mode_logic calls
                    \* that dispensed a treat, oldest first
    wire,           \* the event envelopes send_event has sent to the collector's
                    \* connection and the collector has not yet received; cmd is
                    \* history: the number of the operation whose audio it reports
    ncmd,           \* history: the number of operations that played audio while
                    \* the collector was connected
    mth,            \* the main thread: where its loop iteration stands, and the
                    \* iteration's locals
    lth             \* the thread of the server's event loop: the command handler
                    \* it is inside

\* influx_collector.py
VARIABLES
    recent_audio,   \* _collector_loop's deque recent_audio; nsucc is history:
                    \* the number of command_success events made from the entry,
                    \* seq is history: the entry is the seq-th ever appended,
                    \* conn is history: nconn when it was appended, cmd is
                    \* history: the cmd of the envelope it was made from
    daily_counters, \* _collector_loop's dict daily_counters, keyed by date
    snaps,          \* history: per date, the payload of the daily_counters
                    \* event handed to write_event last
    seen,           \* history: per UTC date, the treat_given events received
                    \* and the command_success events made with that date
    pending,        \* collector_broadcast directives sent and not yet echoed
    nev,            \* history: the number of messages received
    cout,           \* history: the message handled last, the command_success
                    \* made from it, the directives sent and how the write of
                    \* the daily_counters event went
    stored,         \* the durable store: per date, the payload of the
                    \* daily_counters event written last
    series,         \* the durable store: the points of the measurement
                    \* daily_counters, oldest first
    success_points, \* the durable store: the number of points of the
                    \* measurement command_success
    link,           \* where `while True:` of _collector_loop stands:
                    \* "connecting", "connected" or "sleeping"
    hub_up,         \* the environment: the server accepts connections
    delay,          \* the argument of the last asyncio.sleep, 0 before the first
    nconn           \* history: how often the connection was made, up to 2

\* host_comms.py (the device's own WebSocket server)
VARIABLES
    ws_clients,      \* module global _ws_clients
    ws_clients_lock, \* module global _ws_clients_lock: the thread that holds it
    wcl,             \* per connection: "new", "open" (its _handler runs), "gone"
    hnd,             \* the loop thread: what the _handler it runs is doing, and for
                     \* which connection
    snd,             \* per thread: where its _send_via_ws call stands, and the call's
                     \* locals; start is history: _ws_clients when the lock was taken
    nsends           \* history: the number of _send_via_ws calls so far

hubVars == <<sock, hpc, role, DEVICE, UIS, bc, lastDevReg, last, nframes>>
ctlVars == <<mode_state, MODE, previous_label, now, ticks, out, forced, autos,
            wire, ncmd, mth, lth>>
colVars == <<recent_audio, daily_counters, snaps, seen, pending, nev, cout,
             stored, series, success_points, link, hub_up, delay, nconn>>
linkVars == <<link, hub_up, delay, nconn>>
wsVars == <<ws_clients, ws_clients_lock, wcl, hnd, snd, nsends>>
vars == <<hubVars, ctlVars, colVars, wsVars>>

\* what a step of one service leaves alone: the other services
notHub == <<ctlVars, colVars, wsVars>>
notCtl == <<hubVars, colVars, wsVars>>
notCol == <<hubVars, ctlVars, wsVars>>
notWs == <<hubVars, ctlVars, colVars>>

(***************************************************************************)
(*                      PART 1 - ws_mediator.py                            *)
(***************************************************************************)

\* a connection object (web.WebSocketResponse); None is Python's None
Conn == {<<i>> : i \in 1..NConn}
None == <<>>

\* the task that serves an HTTP request (http_status, http_clients); the
\* tasks of the event loop are the ws_handler of each connection and this one
Http == <<0>>
Tasks == Conn \cup {Http}

\* locals of one _broadcast_ui call: snap is list(UIS), todo what the loop has
\* still to visit, fail is to_remove, got counts the sends that succeeded,
\* wait is the UI whose send_str the call is suspended in
NoBc == [todo |-> {}, snap |-> {}, fail |-> {}, got |-> [u \in Conn |-> 0], wait |-> None]
NoLast == [conn |-> None, kind |-> "None", reply |-> "None", to |-> {},
           text |-> <<>>, sent |-> <<>>, clients |-> <<>>]

\* what one text frame can be, as far as ws_handler tells frames apart
RegisterRoles == {"device", "ui"}
RouteKinds == {"json", "register_bad"}

\* --- texts and JSON ------------------------------------------------------
\* a text is the sequence of its tokens, " " is white space; a JSON value is
\* the sequence of the tokens of its text that are not white space
sp == " "

\* str.strip()
RECURSIVE lstrip(_)
lstrip(t) == IF t # <<>> /\ Head(t) = sp THEN lstrip(Tail(t)) ELSE t

RECURSIVE rstrip(_)
rstrip(t) == IF t # <<>> /\ t[Len(t)] = sp THEN rstrip(SubSeq(t, 1, Len(t) - 1)) ELSE t

strip(t) == rstrip(lstrip(t))

\* json.loads accepts the text (here: an object in braces)
IsJson(t) == Len(t) >= 2 /\ t[1] = "{" /\ t[Len(t)] = "}"

\* json.loads(text), for a text it accepts
json_loads(t) == SelectSeq(t, LAMBDA x : x # sp)

\* json.dumps(value): Python's separators are ", " and ": "
RECURSIVE json_dumps(_)
json_dumps(v) ==
    IF v = <<>> THEN <<>>
    ELSE IF Head(v) \in {":", ","} THEN <<Head(v), sp>> \o json_dumps(Tail(v))
    ELSE <<Head(v)>> \o json_dumps(Tail(v))

\* data.get(key) on a flat object; "None" when the key is absent
Get(v, key) ==
    IF \E i \in 1..(Len(v) - 2) : v[i] = key /\ v[i + 1] = ":" /\ v[i - 1] \in {"{", ","}
    THEN v[(CHOOSE i \in 1..(Len(v) - 2) : v[i] = key /\ v[i + 1] = ":" /\ v[i - 1] \in {"{", ","}) + 2]
    ELSE "None"

\* the characters of a text as one string token
RECURSIVE Str(_)
Str(t) == IF t = <<>> THEN "" ELSE Head(t) \o Str(Tail(t))

\* {"type": "raw", "text": text}
raw_message(text) == <<"{", "type", ":", "raw", ",", "text", ":", Str(text), "}">>

\* {"type": "event", "event": "status", "payload": data}
status_message_bare(data) == data

status_message(data) ==
    <<"{", "type", ":", "event", ",", "event", ":", "status", ",", "payload", ":">> \o data \o <<"}">>

\* the frames and bodies peers send
RegisterText(r) == <<"{", "type", ":", "register", ",", "role", ":", r, "}">>
RouteText(k) ==
    IF k = "json"
    THEN <<sp, "{", "cmd", ":", "treat_now", "}">>
    ELSE <<"{", "type", ":", sp, "register", ",", sp, "role", ":", sp, "admin", "}">>
RawText == <<sp, "hello", sp, "dog">>
HttpBodies == {<<"{", "pose", ":", "sit", "}">>, <<"pose", "=", "sit">>}

\* the frame is a register message with role device or ui
IsRegister(data) == Get(data, "type") = "register" /\ Get(data, "role") \in RegisterRoles

HubInit ==
    /\ sock = [c \in Conn |-> "new"]
    /\ hpc = [t \in Tasks |-> "idle"]
    /\ role = [c \in Conn |-> "None"]
    /\ DEVICE = None
    /\ UIS = {}
    /\ bc = [t \in Tasks |-> NoBc]
    /\ lastDevReg = None
    /\ last = NoLast
    /\ nframes = 0

\* ws.send_str / ws.send_json on connection u returns; it raises when u is
\* closed, and it does not return while the peer of u has stopped reading
SendOk(u) == sock[u] = "open"
SendStalls(u) == sock[u] = "stalled"

\* --- _broadcast_ui -------------------------------------------------------
\* one pass of `for ui in list(UIS)`, over UI u
broadcast_send_abort(b, u) ==
    IF SendOk(u)
    THEN [b EXCEPT !.todo = @ \ {u}, !.got = [@ EXCEPT ![u] = @ + 1], !.wait = None]
    ELSE [b EXCEPT !.todo = {}, !.fail = @ \cup {u}, !.wait = None]

broadcast_send(b, u) ==
    IF SendOk(u)
    THEN [b EXCEPT !.todo = @ \ {u}, !.got = [@ EXCEPT ![u] = @ + 1], !.wait = None]
    ELSE IF SendStalls(u)
    THEN [b EXCEPT !.wait = u]
    ELSE [b EXCEPT !.todo = @ \ {u}, !.fail = @ \cup {u}, !.wait = None]

\* _broadcast_ui from its first line to its first `await`: the snapshot and
\* the first send; with no UI registered the call returns at once
broadcast_ui(t) ==
    IF UIS = {}
    THEN UNCHANGED <<hpc, bc>>
    ELSE /\ hpc' = [hpc EXCEPT ![t] = "bcast"]
         /\ \E u \in UIS :
              bc' = [bc EXCEPT ![t] = broadcast_send([NoBc EXCEPT !.todo = UIS, !.snap = UIS], u)]

\* the UIs the loop can turn to next: the one its send is suspended in, or
\* else any of list(UIS) not visited yet
broadcast_next(b) == IF b.wait # None THEN {b.wait} ELSE b.todo

\* _broadcast_ui resumed after an `await ui.send_str(text)`: the next send
broadcast_resume(t) ==
    /\ hpc[t] = "bcast"
    /\ \E u \in broadcast_next(bc[t]) :
          /\ ~(bc[t].wait = u /\ SendStalls(u))
          /\ bc' = [bc EXCEPT ![t] = broadcast_send(bc[t], u)]
    /\ last' = NoLast
    /\ UNCHANGED <<sock, hpc, role, DEVICE, UIS, lastDevReg, nframes>>
    /\ UNCHANGED notHub

\* the UI set after `for u in to_remove: UIS.discard(u)`
broadcast_discard(b) == UIS \ b.fail

\* _broadcast_ui resumed after the last `await`: the to_remove loop, and the
\* handler is back in `async for msg in ws` (http_status: has answered)
broadcast_return(t) ==
    /\ hpc[t] = "bcast"
    /\ bc[t].todo = {}
    /\ UIS' = broadcast_discard(bc[t])
    /\ hpc' = [hpc EXCEPT ![t] = IF t = Http THEN "idle" ELSE "recv"]
    /\ bc' = [bc EXCEPT ![t] = NoBc]
    /\ last' = NoLast
    /\ UNCHANGED <<sock, role, DEVICE, lastDevReg, nframes>>
    /\ UNCHANGED notHub

\* --- ws_handler ----------------------------------------------------------
\* the `finally:` block of ws_handler, as the values it leaves in DEVICE, UIS
CleanupDevice_any(c) == IF role[c] = "device" THEN None ELSE DEVICE

CleanupDevice(c) == IF role[c] = "device" /\ DEVICE = c THEN None ELSE DEVICE
CleanupUis(c) == IF role[c] = "ui" THEN UIS \ {c} ELSE UIS

\* the record of a handled frame or request: who sent it, what it was, the
\* reply to the sender, the connections it was handed to directly, its text
\* and the text handed on (to the device, or to _broadcast_ui's send_str)
Did(c, kind, reply, to, text, sent) ==
    [conn |-> c, kind |-> kind, reply |-> reply, to |-> to,
     text |-> text, sent |-> sent, clients |-> <<>>]

\* a client connects: ws.prepare, role = None; the connections are numbered
\* in the order they are accepted
ws_accept(c) ==
    /\ sock[c] = "new"
    /\ \A d \in Conn : d[1] < c[1] => sock[d] # "new"
    /\ sock' = [sock EXCEPT ![c] = "open"]
    /\ hpc' = [hpc EXCEPT ![c] = "recv"]
    /\ last' = NoLast
    /\ UNCHANGED <<role, DEVICE, UIS, bc, lastDevReg, nframes>>
    /\ UNCHANGED notHub

\* the peer goes away (close frame, reset): sends to c fail from now on
peer_close(c) ==
    /\ sock[c] \in {"open", "stalled"}
    /\ sock' = [sock EXCEPT ![c] = "closed"]
    /\ last' = NoLast
    /\ UNCHANGED <<hpc, role, DEVICE, UIS, bc, lastDevReg, nframes>>
    /\ UNCHANGED notHub

\* the peer stops reading without closing: a send to c does not return
peer_stall(c) ==
    /\ sock[c] = "open"
    /\ sock' = [sock EXCEPT ![c] = "stalled"]
    /\ last' = NoLast
    /\ UNCHANGED <<hpc, role, DEVICE, UIS, bc, lastDevReg, nframes>>
    /\ UNCHANGED notHub

\* `async for msg in ws` ends on a closed connection and `finally:` runs
ws_cleanup(c) ==
    /\ sock[c] = "closed"
    /\ hpc[c] = "recv"
    /\ hpc' = [hpc EXCEPT ![c] = "done"]
    /\ DEVICE' = CleanupDevice(c)
    /\ UIS' = CleanupUis(c)
    /\ last' = NoLast
    /\ UNCHANGED <<sock, role, bc, lastDevReg, nframes>>
    /\ UNCHANGED notHub

\* the value register(role:device) from connection c leaves in DEVICE
register_device_first_wins(c) == IF DEVICE = None THEN c ELSE DEVICE

register_device(c) == c

\* a register message with role device or ui
ws_register(c, r) ==
    LET text == RegisterText(r)
        data == json_loads(strip(text))
    IN  /\ sock[c] = "open"
        /\ hpc[c] = "recv"
        /\ nframes < MaxFrames
        /\ IsJson(strip(text)) /\ IsRegister(data)
        /\ nframes' = nframes + 1
        /\ role' = [role EXCEPT ![c] = Get(data, "role")]
        /\ IF Get(data, "role") = "device"
           THEN /\ DEVICE' = register_device(c)
                /\ lastDevReg' = c
                /\ UNCHANGED UIS
           ELSE /\ UIS' = UIS \cup {c}
                /\ UNCHANGED <<DEVICE, lastDevReg>>
        /\ last' = Did(c, "register", "ok_" \o Get(data, "role"), {}, text, <<>>)
        /\ UNCHANGED <<sock, hpc, bc>>
        /\ UNCHANGED notHub

\* the handler of c leaves through `finally:` on an exception
ws_raise(c) ==
    /\ sock' = [sock EXCEPT ![c] = "closed"]
    /\ hpc' = [hpc EXCEPT ![c] = "done"]
    /\ DEVICE' = CleanupDevice(c)
    /\ UIS' = CleanupUis(c)

\* the handler of c is suspended in DEVICE.send_str, as hpc value pc
ws_suspend(c, pc) ==
    /\ hpc' = [hpc EXCEPT ![c] = pc]
    /\ bc' = [bc EXCEPT ![c] = [NoBc EXCEPT !.wait = DEVICE]]

\* a text frame that json.loads rejects
ws_text(c) ==
    LET text == strip(RawText) IN
    /\ sock[c] = "open"
    /\ hpc[c] = "recv"
    /\ nframes < MaxFrames
    /\ ~IsJson(text)
    /\ nframes' = nframes + 1
    /\ CASE role[c] = "device" ->
              /\ broadcast_ui(c)
              /\ last' = Did(c, "text", "None", {}, RawText, json_dumps(raw_message(text)))
              /\ UNCHANGED <<sock, role, DEVICE, UIS, lastDevReg>>
         [] role[c] = "ui" /\ DEVICE # None /\ SendOk(DEVICE) ->
              /\ last' = Did(c, "text", "None", {DEVICE}, RawText, text)
              /\ UNCHANGED <<sock, hpc, role, DEVICE, UIS, bc, lastDevReg>>
         [] role[c] = "ui" /\ DEVICE # None /\ SendStalls(DEVICE) ->
              /\ ws_suspend(c, "fwd_text")
              /\ last' = Did(c, "text", "None", {}, RawText, text)
              /\ UNCHANGED <<sock, role, DEVICE, UIS, lastDevReg>>
         [] role[c] = "ui" /\ DEVICE # None /\ ~SendOk(DEVICE) /\ ~SendStalls(DEVICE) ->
              \* DEVICE.send_str raises outside any try: the handler leaves
              \* through `finally:` and the connection is closed
              /\ ws_raise(c)
              /\ last' = Did(c, "text", "None", {}, RawText, text)
              /\ UNCHANGED <<role, bc, lastDevReg>>
         [] OTHER ->
              \* role is None, or role is ui and DEVICE is None: nothing is sent
              /\ last' = Did(c, "text", "None", {}, RawText, <<>>)
              /\ UNCHANGED <<sock, hpc, role, DEVICE, UIS, bc, lastDevReg>>
    /\ UNCHANGED notHub

\* what the sender of a routed UI frame is answered, dev being DEVICE:
\* nothing when DEVICE.send_str returned
route_reply_swallowed(dev) == IF dev = None THEN "no_device_connected" ELSE "None"

route_reply(dev) ==
    IF dev = None THEN "no_device_connected"
    ELSE IF SendOk(dev) THEN "None"
    ELSE "failed_to_send_to_device"

\* a JSON frame that is no register message with role device or ui
ws_route(c, k) ==
    LET text == RouteText(k)
        data == json_loads(strip(text))
    IN
    /\ sock[c] = "open"
    /\ hpc[c] = "recv"
    /\ nframes < MaxFrames
    /\ IsJson(strip(text)) /\ ~IsRegister(data)
    /\ nframes' = nframes + 1
    /\ CASE role[c] = "ui" /\ DEVICE # None /\ SendOk(DEVICE) ->
              /\ last' = Did(c, "json", route_reply(DEVICE), {DEVICE}, text, json_dumps(data))
              /\ UNCHANGED <<sock, hpc, role, DEVICE, UIS, bc, lastDevReg>>
         [] role[c] = "ui" /\ DEVICE # None /\ SendStalls(DEVICE) ->
              /\ ws_suspend(c, "fwd_json")
              /\ last' = Did(c, "json", "None", {}, text, json_dumps(data))
              /\ UNCHANGED <<sock, role, DEVICE, UIS, lastDevReg>>
         [] role[c] = "ui" /\ DEVICE # None /\ ~SendOk(DEVICE) /\ ~SendStalls(DEVICE) ->
              /\ last' = Did(c, "json", route_reply(DEVICE), {}, text, json_dumps(data))
              /\ UNCHANGED <<sock, hpc, role, DEVICE, UIS, bc, lastDevReg>>
         [] role[c] = "ui" /\ DEVICE = None ->
              /\ last' = Did(c, "json", route_reply(DEVICE), {}, text, <<>>)
              /\ UNCHANGED <<sock, hpc, role, DEVICE, UIS, bc, lastDevReg>>
         [] role[c] = "device" ->
              /\ broadcast_ui(c)
              /\ last' = Did(c, "json", "None", {}, text, json_dumps(data))
              /\ UNCHANGED <<sock, role, DEVICE, UIS, lastDevReg>>
         [] OTHER ->
              /\ last' = Did(c, "json", "not_registered", {}, text, <<>>)
              /\ UNCHANGED <<sock, hpc, role, DEVICE, UIS, bc, lastDevReg>>
    /\ UNCHANGED notHub

\* the handler of c, suspended in DEVICE.send_str, is resumed: the device
\* connection has closed and the send raises
forward_resume(c) ==
    /\ hpc[c] \in {"fwd_json", "fwd_text"}
    /\ sock[bc[c].wait] = "closed"
    /\ bc' = [bc EXCEPT ![c] = NoBc]
    /\ IF hpc[c] = "fwd_json"
       THEN /\ hpc' = [hpc EXCEPT ![c] = "recv"]
            /\ last' = [last EXCEPT !.conn = c, !.kind = "json", !.to = {},
                                    !.reply = "failed_to_send_to_device"]
            /\ UNCHANGED <<sock, DEVICE, UIS>>
       ELSE /\ ws_raise(c)
            /\ last' = [last EXCEPT !.conn = c, !.kind = "text", !.to = {}, !.reply = "None"]
    /\ UNCHANGED <<role, lastDevReg, nframes>>
    /\ UNCHANGED notHub

\* --- HTTP ----------------------------------------------------------------
\* POST /api/status with the given body
http_status(body) ==
    /\ hpc[Http] = "idle"
    /\ nframes < MaxFrames
    /\ nframes' = nframes + 1
    /\ IF IsJson(strip(body))
       THEN /\ broadcast_ui(Http)
            /\ last' = Did(Http, "status", "ok", {}, body,
                           json_dumps(status_message(json_loads(body))))
       ELSE /\ last' = Did(Http, "status", "invalid_json", {}, body, <<>>)
            /\ UNCHANGED <<hpc, bc>>
    /\ UNCHANGED <<sock, role, DEVICE, UIS, lastDevReg>>
    /\ UNCHANGED notHub

\* GET /api/clients
http_clients ==
    /\ nframes < MaxFrames
    /\ nframes' = nframes + 1
    /\ last' = [Did(Http, "clients", "clients", {}, <<>>, <<>>)
                  EXCEPT !.clients = <<DEVICE # None, Cardinality(UIS)>>]
    /\ UNCHANGED <<sock, hpc, role, DEVICE, UIS, bc, lastDevReg>>
    /\ UNCHANGED notHub

\* the WebSocket side of the mediator
HubNext ==
    \/ \E c \in Conn : ws_accept(c)
    \/ \E c \in Conn : peer_close(c)
    \/ \E c \in Conn : ws_cleanup(c)
    \/ \E c \in Conn, r \in RegisterRoles : ws_register(c, r)
    \/ \E c \in Conn : ws_text(c)
    \/ \E c \in Conn, k \in RouteKinds : ws_route(c, k)
    \/ \E t \in Tasks : broadcast_resume(t)
    \/ \E t \in Tasks : broadcast_return(t)

\* the mediator with its HTTP fallback, POST /api/status
HubHttpNext ==
    \/ HubNext
    \/ \E body \in HttpBodies : http_status(body)

\* the mediator with its read endpoint, GET /api/clients
HubReadNext ==
    \/ HubNext
    \/ http_clients

\* the mediator with peers that stop reading
HubStallNext ==
    \/ HubNext
    \/ \E c \in Conn : peer_stall(c)
    \/ \E c \in Conn : forward_resume(c)

(***************************************************************************)
(*                         PART 2 - main.py                                *)
(***************************************************************************)

\* config.py
TREAT_WINDOW == 10
TREAT_COOLDOWN == 300

\* what vision.classify_pose can return as label; "None" is Python's None
Labels == {"stand", "sit", "None"}

\* the clock advances by one of these between two operations
Deltas == {1, TREAT_WINDOW, TREAT_COOLDOWN}

\* host commands, as far as _on_host_command tells them apart
HostCommands ==
    {[cmd |-> "None", arg |-> "None"], [cmd |-> "bogus", arg |-> "None"],
     [cmd |-> "treat_now", arg |-> "None"],
     [cmd |-> "audio", arg |-> "sit"],
     [cmd |-> "collector_broadcast", arg |-> "command_success"]}
    \cup [cmd : {"set_mode"}, arg : {"auto", "manual", "bogus"}]
    \cup [cmd : {"servo"}, arg : {"sweep", "bogus"}]
    \cup [cmd : {"override_treat"}, arg : {"disable", "enable", "force", "bogus"}]

\* the commands whose handling calls servo.sweep()
SweepCommands ==
    {[cmd |-> "treat_now", arg |-> "None"], [cmd |-> "servo", arg |-> "sweep"]}

\* the modes a POST /set_mode of the Flask application can carry
HttpModes == {"auto", "manual", "bogus"}

Ev(name, arg) == [name |-> name, arg |-> arg]

\* a string is the sequence of its characters
s_sit == <<"s", "i", "t">>
s_SIT_wav == <<"S", "I", "T", ".", "w", "a", "v">>
s_good == <<"G", "o", "o", "d">>
s_stand == <<"s", "t", "a", "n", "d">>

s_good_dog == <<"G", "o", "o", "d", " ", "d", "o", "g", "!">>
s_wav == <<".", "w", "a", "v">>

\* the characters of the texts and labels the controller handles
Chars(str) ==
    CASE str = "sit" -> s_sit
      [] str = "stand" -> s_stand
      [] str = "Good dog!" -> s_good_dog
      [] OTHER -> <<>>

\* what say() and the audio command find on the device: a recording named as
\* the text, else a TTS engine, else neither
AudioEnvs == {"recording", "tts", "none"}

\* audio_comms.say(text): the payloads of the audio_playback events it sends
say(text, env) ==
    CASE env = "recording" ->
            <<[text |-> <<>>, filename |-> Chars(text) \o s_wav],
              [text |-> Chars(text), filename |-> <<>>]>>
      [] env = "tts" -> <<[text |-> Chars(text), filename |-> <<>>]>>
      [] OTHER -> <<>>

\* `elif cmd == "audio":` with a text: the texts given to say(), the events
\* given to send_event by the branch itself, and the payloads of all the
\* audio_playback events the command sends
audio_says(text, env) == IF env = "recording" THEN <<>> ELSE <<text>>

audio_events(env) ==
    IF env = "recording"
    THEN <<Ev("audio_playback", "file"), Ev("audio_playback", "tts")>>
    ELSE <<Ev("audio_playback", "tts")>>

audio_payloads(text, env) ==
    IF env = "recording"
    THEN <<[text |-> <<>>, filename |-> Chars(text) \o s_wav],
           [text |-> Chars(text), filename |-> <<>>]>>
    ELSE say(text, env) \o <<[text |-> Chars(text), filename |-> <<>>]>>

\* the most envelopes in flight to the collector
MaxWire == 5

\* send_event's envelopes: of audio_playback events with the payloads ps, of
\* a pose_transition to label, of the events evs without a text
audio_envelopes(ps, t, c) ==
    [i \in DOMAIN ps |->
        [event |-> "audio_playback", timestamp |-> t, text |-> ps[i].text,
         filename |-> ps[i].filename, to |-> None, cmd |-> c]]

pose_envelopes(trs, label, t) ==
    [i \in DOMAIN trs |->
        [event |-> "pose_transition", timestamp |-> t, text |-> <<>>,
         filename |-> <<>>, to |-> IF label = "None" THEN None ELSE Chars(label),
         cmd |-> 0]]

plain_envelopes(evs, t) ==
    [i \in DOMAIN evs |->
        [event |-> evs[i].name, timestamp |-> t, text |-> <<>>, filename |-> <<>>,
         to |-> None, cmd |-> 0]]

\* the audio_playback envelopes of the say() calls of one operation
said(says, env, t, c) ==
    IF says = <<>> THEN <<>> ELSE audio_envelopes(say(says[1], env), t, c)

\* _send_via_ws: the envelopes es reach the collector's connection when it
\* is connected; audio tells whether the operation played audio
put(es, audio) ==
    IF link = "connected"
    THEN /\ Len(wire) + Len(es) <= MaxWire
         /\ wire' = wire \o es
         /\ ncmd' = IF audio THEN ncmd + 1 ELSE ncmd
    ELSE UNCHANGED <<wire, ncmd>>

\* the same for an operation that gave says to say() and sent the events pre
\* before and post after that
put_said(pre, says, post) ==
    IF link = "connected"
    THEN \E env \in AudioEnvs :
            put(pre \o said(says, env, now, ncmd + 1) \o plain_envelopes(post, now),
                says # <<>>)
    ELSE UNCHANGED <<wire, ncmd>>

\* out.op: "None" at start, "tick", "cmd", "http" (a POST /set_mode), "cycle"
\* (a loop iteration that did not call automatic_mode_logic), "step" (one
\* that did); with the two threads told apart, "read" (the first half of an
\* iteration, up to `previous_label = label`), "enter" (automatic_mode_logic
\* up to its first blocking call), "begin" (a command handler up to
\* servo.sweep()).  msg is the command handled, reply what was sent back to
\* the sender of the command
NoOut == [op |-> "None", label |-> "None", sweeps |-> 0, says |-> <<>>, events |-> <<>>,
          msg |-> <<>>, reply |-> "None"]

\* the main thread outside an iteration of `while True:`; pc is "idle",
\* "gate" (before `if mode == "auto":`) or "act" (inside the blocking call
\* of automatic_mode_logic); mode is the local `mode`, plan what
\* automatic_mode_logic goes on to do after the blocking call, flag the
\* treat_disabled it read
NoMth == [pc |-> "idle", label |-> "None", mode |-> "None", plan |-> <<>>, flag |-> FALSE]

\* the loop thread outside a command handler; pc is "idle" or "sweep" (inside
\* servo.sweep())
NoLth == [pc |-> "idle", msg |-> <<>>]

CtlInit ==
    /\ mode_state = [stage |-> "waiting_stand", last_command_time |-> 0,
                     cooldown_until |-> 0, treat_disabled |-> FALSE]
    /\ MODE = "auto"
    /\ previous_label = "None"
    /\ now = 0
    /\ ticks = 0
    /\ out = NoOut
    /\ forced = FALSE
    /\ autos = <<>>
    /\ wire = <<>>
    /\ ncmd = 0
    /\ mth = NoMth
    /\ lth = NoLth

\* the value automatic_mode_logic stores in cooldown_until on a treat at time t
cooldown_until_from_command(ms, t) == ms.last_command_time + TREAT_COOLDOWN

cooldown_until_after_treat(ms, t) == t + TREAT_COOLDOWN

\* `if now > mode_state["cooldown_until"]:` at time t
cooldown_over_at_once(ms, t) == t >= ms.cooldown_until - TREAT_COOLDOWN

cooldown_over(ms, t) == t > ms.cooldown_until

\* automatic_mode_logic(mode_state, servo, label) called at time t: the new
\* mode_state (ms), the number of servo.sweep() calls, the texts given to
\* say() and the events given to host_comms.send_event, in order
automatic_mode_logic(ms, label, t) ==
    LET quiet(m) == [ms |-> m, sweeps |-> 0, says |-> <<>>, events |-> <<>>] IN
    CASE ms.stage = "waiting_stand" ->
            IF label = "stand"
            THEN [ms |-> [ms EXCEPT !.last_command_time = t, !.stage = "waiting_sit"],
                  sweeps |-> 0, says |-> <<"sit">>, events |-> <<>>]
            ELSE quiet(ms)
      [] ms.stage = "waiting_sit" ->
            LET ms1 == IF t - ms.last_command_time > TREAT_WINDOW
                       THEN [ms EXCEPT !.stage = "waiting_stand"]
                       ELSE ms
            IN  IF ms1.treat_disabled
                THEN quiet(ms1)
                ELSE IF label = "sit"
                THEN [ms |-> [ms1 EXCEPT !.stage = "cooldown",
                                         !.cooldown_until = cooldown_until_after_treat(ms1, t)],
                      sweeps |-> 1, says |-> <<"Good dog!">>,
                      events |-> <<Ev("treat_given", "auto"), Ev("servo_action", "sweep")>>]
                ELSE quiet(ms1)
      [] ms.stage = "cooldown" ->
            IF cooldown_over(ms, t)
            THEN quiet([ms EXCEPT !.stage = "waiting_stand"])
            ELSE quiet(ms)
      [] OTHER -> quiet(ms)

\* the timeout condition of waiting_sit for mode_state ms at time t
timed_out(ms, t) == t - ms.last_command_time > TREAT_WINDOW

\* a step at time t finds ms in waiting_sit, in time and not disabled
eligible(ms, t) ==
    ms.stage = "waiting_sit" /\ ~timed_out(ms, t) /\ ~ms.treat_disabled

\* the pose_transition event of an iteration that classified label
transition_events(label) ==
    IF label # previous_label
    THEN <<Ev("pose_transition", previous_label \o "->" \o label)>>
    ELSE <<>>

\* one iteration of main's `while True:` in which vision.detect_dog found a
\* dog and classify_pose returned label
main_cycle_dog(label) ==
    LET tr == transition_events(label)
        r == automatic_mode_logic(mode_state, label, now)
    IN  /\ mth.pc = "idle"
        /\ previous_label' = label
        /\ IF MODE = "auto"
           THEN /\ mode_state' = r.ms
                /\ out' = [NoOut EXCEPT !.op = "step", !.label = label,
                                        !.sweeps = r.sweeps, !.says = r.says,
                                        !.events = tr \o r.events]
                /\ forced' = (forced /\ ~eligible(mode_state, now))
                /\ autos' = IF r.sweeps = 1 THEN Append(autos, now) ELSE autos
                /\ put_said(pose_envelopes(tr, label, now), r.says, r.events)
           ELSE /\ mode_state' = mode_state
                /\ out' = [NoOut EXCEPT !.op = "cycle", !.label = label, !.events = tr]
                /\ forced' = forced
                /\ autos' = autos
                /\ put(pose_envelopes(tr, label, now), FALSE)
        /\ UNCHANGED <<MODE, now, ticks, mth, lth>>
        /\ UNCHANGED notCtl

\* one iteration of main's `while True:` in which detect_dog returned None
main_cycle_no_dog ==
    /\ mth.pc = "idle"
    /\ out' = [NoOut EXCEPT !.op = "cycle", !.label = "nodog"]
    /\ UNCHANGED <<mode_state, MODE, previous_label, now, ticks, forced, autos, wire, ncmd, mth, lth>>
    /\ UNCHANGED notCtl

\* what `elif cmd == "treat_now":` gives to host_comms.send_event
treat_now_events_as_auto == <<Ev("treat_given", "auto"), Ev("servo_action", "sweep")>>

treat_now_events == <<Ev("treat_given", "treat_now"), Ev("servo_action", "sweep")>>

\* _on_host_command(msg), called by _handler in the thread of the server's
\* event loop; nothing is sent back to the sender
on_host_command(msg) ==
    LET did(sw, sy, evs) ==
            /\ out' = [NoOut EXCEPT !.op = "cmd", !.sweeps = sw, !.says = sy,
                                    !.events = evs, !.msg = msg]
            /\ forced' = (forced \/ (msg.cmd = "override_treat" /\ msg.arg = "force"))
            /\ UNCHANGED <<autos, mth, lth>>
            /\ UNCHANGED notCtl
        sent(sw, sy, evs) ==
            /\ did(sw, sy, evs)
            /\ put_said(<<>>, sy, evs)
    IN
    /\ lth.pc = "idle"
    /\ CASE msg.cmd = "set_mode" /\ msg.arg \in {"auto", "manual"} ->
            /\ MODE' = msg.arg
            /\ sent(0, <<>>, <<Ev("mode_changed", msg.arg)>>)
            /\ UNCHANGED <<mode_state, previous_label, now, ticks>>
      [] msg.cmd = "servo" /\ msg.arg = "sweep" ->
            /\ sent(1, <<>>, <<Ev("servo_action", "sweep"), Ev("treat_given", "host_command")>>)
            /\ UNCHANGED <<mode_state, MODE, previous_label, now, ticks>>
      [] msg.cmd = "audio" ->
            /\ \E env \in AudioEnvs :
                  /\ did(0, audio_says(msg.arg, env), audio_events(env))
                  /\ put(audio_envelopes(audio_payloads(msg.arg, env), now, ncmd + 1),
                         TRUE)
            /\ UNCHANGED <<mode_state, MODE, previous_label, now, ticks>>
      [] msg.cmd = "collector_broadcast" ->
            /\ sent(0, <<>>, <<Ev(msg.arg, "payload")>>)
            /\ UNCHANGED <<mode_state, MODE, previous_label, now, ticks>>
      [] msg.cmd = "override_treat" /\ msg.arg \in {"disable", "enable"} ->
            /\ mode_state' = [mode_state EXCEPT !.treat_disabled = (msg.arg = "disable")]
            /\ sent(0, <<>>, <<Ev("treat_override", msg.arg)>>)
            /\ UNCHANGED <<MODE, previous_label, now, ticks>>
      [] msg.cmd = "treat_now" ->
            /\ sent(1, <<"Good dog!">>, treat_now_events)
            /\ UNCHANGED <<mode_state, MODE, previous_label, now, ticks>>
      [] OTHER ->
            \* no cmd, an unknown cmd, or an unknown mode or action: a log line
            /\ sent(0, <<>>, <<>>)
            /\ UNCHANGED <<mode_state, MODE, previous_label, now, ticks>>

\* what POST /set_mode answers for a mode that is neither auto nor manual
set_mode_reply == "invalid mode"

\* host_comms.set_mode: POST /set_mode of the Flask application, handled in
\* the Flask thread
flask_set_mode(m) ==
    /\ IF m \in {"auto", "manual"}
       THEN /\ MODE' = m
            /\ out' = [NoOut EXCEPT !.op = "http", !.reply = "ok",
                                    !.msg = [cmd |-> "set_mode", arg |-> m]]
       ELSE /\ MODE' = MODE
            /\ out' = [NoOut EXCEPT !.op = "http", !.reply = set_mode_reply,
                                    !.msg = [cmd |-> "set_mode", arg |-> m]]
    /\ UNCHANGED <<mode_state, previous_label, now, ticks, forced, autos, wire, ncmd, mth, lth>>
    /\ UNCHANGED notCtl

\* time passes between two operations
Tick(d) ==
    /\ ticks < MaxTicks
    /\ ticks' = ticks + 1
    /\ now' = now + d
    /\ out' = [NoOut EXCEPT !.op = "tick"]
    /\ UNCHANGED <<mode_state, MODE, previous_label, forced, autos, wire, ncmd, mth, lth>>
    /\ UNCHANGED notCtl

\* the controller, every operation taken as a whole
CtlNext ==
    \/ \E label \in Labels : main_cycle_dog(label)
    \/ main_cycle_no_dog
    \/ \E msg \in HostCommands : on_host_command(msg)
    \/ \E m \in HttpModes : flask_set_mode(m)
    \/ \E d \in Deltas : Tick(d)

\* --- the two threads told apart ---------------------------------------------
\* main's loop iteration up to `previous_label = label`: config.MODE is read
\* into the local `mode`, the pose is classified and reported
loop_read(label) ==
    /\ mth.pc = "idle"
    /\ previous_label' = label
    /\ mth' = [NoMth EXCEPT !.pc = "gate", !.label = label, !.mode = MODE]
    /\ out' = [NoOut EXCEPT !.op = "read", !.label = label,
                            !.events = transition_events(label)]
    /\ put(pose_envelopes(transition_events(label), label, now), FALSE)
    /\ UNCHANGED <<mode_state, MODE, now, ticks, forced, autos, lth>>
    /\ UNCHANGED notCtl

\* `if mode == "auto":` is false: the iteration ends
logic_skip ==
    /\ mth.pc = "gate"
    /\ mth.mode # "auto"
    /\ mth' = NoMth
    /\ out' = [NoOut EXCEPT !.op = "cycle", !.label = mth.label]
    /\ UNCHANGED <<mode_state, MODE, previous_label, now, ticks, forced, autos, wire, ncmd, lth>>
    /\ UNCHANGED notCtl

\* the mode_state with the fields automatic_mode_logic assigns taken from ms
assigned(ms) ==
    [mode_state EXCEPT !.stage = ms.stage,
                       !.last_command_time = ms.last_command_time,
                       !.cooldown_until = ms.cooldown_until]

\* `if mode == "auto":` is true: automatic_mode_logic runs up to its first
\* blocking call, say("sit") or servo.sweep(), or to its end when it makes
\* none; the timeout is assigned before the blocking call
logic_enter ==
    LET r == automatic_mode_logic(mode_state, mth.label, now) IN
    /\ mth.pc = "gate"
    /\ mth.mode = "auto"
    /\ IF r.sweeps = 0 /\ r.says = <<>>
       THEN /\ mode_state' = r.ms
            /\ mth' = NoMth
            /\ out' = [NoOut EXCEPT !.op = "step", !.label = mth.label]
       ELSE /\ mode_state' =
                  IF mode_state.stage = "waiting_sit" /\ timed_out(mode_state, now)
                  THEN [mode_state EXCEPT !.stage = "waiting_stand"]
                  ELSE mode_state
            /\ mth' = [mth EXCEPT !.pc = "act", !.plan = <<r>>,
                                  !.flag = mode_state.treat_disabled]
            /\ out' = [NoOut EXCEPT !.op = "enter", !.label = mth.label]
    /\ autos' = IF r.sweeps = 1 THEN Append(autos, now) ELSE autos
    /\ UNCHANGED <<MODE, previous_label, now, ticks, forced, wire, ncmd, lth>>
    /\ UNCHANGED notCtl

\* the blocking call has returned: automatic_mode_logic assigns the stage and
\* the times it decided on, sends its events and returns
logic_exit ==
    LET r == mth.plan[1] IN
    /\ mth.pc = "act"
    /\ mode_state' = assigned(r.ms)
    /\ mth' = NoMth
    /\ out' = [NoOut EXCEPT !.op = "step", !.label = mth.label, !.sweeps = r.sweeps,
                            !.says = r.says, !.events = r.events]
    /\ put_said(<<>>, r.says, r.events)
    /\ UNCHANGED <<MODE, previous_label, now, ticks, forced, autos, lth>>
    /\ UNCHANGED notCtl

\* _on_host_command(msg) for a command that sweeps, up to servo.sweep(): the
\* handler may start whatever the main thread is doing
host_sweep_begin(msg) ==
    /\ lth.pc = "idle"
    /\ lth' = [pc |-> "sweep", msg |-> msg]
    /\ out' = [NoOut EXCEPT !.op = "begin", !.msg = msg]
    /\ UNCHANGED <<mode_state, MODE, previous_label, now, ticks, forced, autos, wire, ncmd, mth>>
    /\ UNCHANGED notCtl

\* servo.sweep() has returned: the handler sends its events and returns
host_sweep_end ==
    /\ lth.pc = "sweep"
    /\ lth' = NoLth
    /\ out' = [NoOut EXCEPT !.op = "cmd", !.sweeps = 1, !.msg = lth.msg,
                  !.says = IF lth.msg.cmd = "treat_now" THEN <<"Good dog!">> ELSE <<>>,
                  !.events = IF lth.msg.cmd = "treat_now"
                             THEN treat_now_events
                             ELSE <<Ev("servo_action", "sweep"),
                                    Ev("treat_given", "host_command")>>]
    /\ put_said(<<>>, out'.says, out'.events)
    /\ UNCHANGED <<mode_state, MODE, previous_label, now, ticks, forced, autos, mth>>
    /\ UNCHANGED notCtl

\* the commands that assign what the two threads share, config.MODE and
\* mode_state["treat_disabled"], and one that assigns nothing
SharedCommands ==
    [cmd : {"set_mode"}, arg : {"auto", "manual"}]
    \cup [cmd : {"override_treat"}, arg : {"disable", "enable"}]
    \cup {[cmd |-> "bogus", arg |-> "None"]}

\* the controller with its threads: the main thread's loop and the command
\* handlers in the thread of the server's event loop
CtlThreadNext ==
    \/ \E label \in Labels : loop_read(label)
    \/ logic_skip
    \/ logic_enter
    \/ logic_exit
    \/ main_cycle_no_dog
    \/ \E msg \in SharedCommands : on_host_command(msg)
    \/ \E msg \in SweepCommands : host_sweep_begin(msg)
    \/ host_sweep_end
    \/ \E d \in Deltas : Tick(d)


(***************************************************************************)
(*                     PART 3 - influx_collector.py                        *)
(***************************************************************************)
\* deque(maxlen=200)
RecentAudioMaxLen == 200
\* `pose_ts - a_ts > 5.0`, in seconds
MatchWindow == 5
\* seconds in a UTC day, as datetime.utcfromtimestamp counts them
DayLen == 86400

\* the timestamps events carry, in whole seconds, around one UTC midnight:
\* gaps of 0, 1, 4, 5 and 6 seconds, and two dates
TsOffsets == {-6, -5, -1, 0}
Timestamps == {DayLen + o : o \in TsOffsets}

\* str.lower()
LowerChar(c) ==
    CASE c = "S" -> "s" [] c = "I" -> "i" [] c = "T" -> "t" [] c = "G" -> "g"
      [] OTHER -> c
Lower(str) == [i \in DOMAIN str |-> LowerChar(str[i])]

\* `p in str`
IsSubstr(p, str) ==
    \E k \in 0..(Len(str) - Len(p)) : \A i \in 1..Len(p) : str[k + i] = p[i]

\* the event envelopes the collector receives from the device: every one
\* carries the timestamp send_event gave it
AudioEvents ==
    [event : {"audio_playback"}, timestamp : Timestamps,
     text : {s_sit, s_good}, filename : {<<>>}, to : {None}]
    \cup [event : {"audio_playback"}, timestamp : Timestamps,
          text : {<<>>}, filename : {s_SIT_wav}, to : {None}]
PoseEvents ==
    [event : {"pose_transition"}, timestamp : Timestamps,
     text : {<<>>}, filename : {<<>>}, to : {s_sit, s_stand, None}]
TreatEvents ==
    [event : {"treat_given"}, timestamp : Timestamps,
     text : {<<>>}, filename : {<<>>}, to : {None}]
OtherEvents ==
    [event : {"servo_action"}, timestamp : {DayLen},
     text : {<<>>}, filename : {<<>>}, to : {None}]
\* the device's rebroadcast of a collector_broadcast directive
EchoEvents ==
    [event : {"command_success"}, timestamp : {DayLen},
     text : {<<>>}, filename : {<<>>}, to : {None}]

\* cout.wrote: "None" when no daily_counters event was written, else "ok" or
\* "failed"
\* "failed"; cout.behind: the increments of the date's counters the store
\* had not got when the message arrived
\* cout.writes: the events handed to write_event, in the order of the calls;
\* cout.conn: nconn when the message arrived
NoCout == [event |-> "None", timestamp |-> 0, to |-> None, success |-> <<>>,
           directives |-> <<>>, wrote |-> "None", behind |-> 0, writes |-> <<>>,
           conn |-> 0]
NoCounts == [treat |-> 0, success |-> 0]

\* the default of --reconnect, in seconds
reconnect_interval == 5

\* the collector at its start, recent_audio apart
ColStart ==
    /\ daily_counters = <<>>
    /\ snaps = <<>>
    /\ seen = <<>>
    /\ pending = 0
    /\ nev = 0
    /\ cout = NoCout
    /\ stored = <<>>
    /\ series = <<>>
    /\ success_points = 0
    /\ link = "connecting"
    /\ hub_up = TRUE
    /\ delay = 0
    /\ nconn = 0

ColInit ==
    /\ recent_audio = <<>>
    /\ ColStart

\* an entry of recent_audio as the seq-th audio_playback event left it
OldIntent(seq) ==
    [ts |-> DayLen - 5, matched |-> FALSE, nsucc |-> 0, seq |-> seq, conn |-> 0,
     cmd |-> 0, text |-> IF seq = 1 THEN s_sit ELSE s_good, filename |-> <<>>]

\* the collector after RecentAudioMaxLen - 1 audio_playback events at
\* DayLen - 5, the first to say sit and the others Good: recent_audio is one
\* short of full
ColFullInit ==
    /\ recent_audio = [i \in 1..(RecentAudioMaxLen - 1) |-> OldIntent(i)]
    /\ ColStart

\* the UTC date an instant falls on, as the number of the day since the epoch
UtcDate(ts) == ts \div DayLen

\* _today_key(ts): datetime.utcfromtimestamp(ts).strftime('%Y-%m-%d'), the
\* date named by its day number
today_key_local(ts) == (ts + 3600) \div DayLen

today_key(ts) == ts \div DayLen

\* counters with the counter `kind` of date k one higher
Bump(counters, k, kind) ==
    LET old == IF k \in DOMAIN counters THEN counters[k] ELSE NoCounts
    IN  (k :> [old EXCEPT ![kind] = @ + 1]) @@ counters

\* _inc_counter(kind, ts): the new daily_counters
inc_counter(kind, ts) == Bump(daily_counters, today_key(ts), kind)

\* the payload of the daily_counters event _inc_counter hands to write_event
SnapshotBefore(kind, ts) ==
    LET k == today_key(ts)
        old == IF k \in DOMAIN daily_counters THEN daily_counters[k] ELSE NoCounts
    IN  [date |-> k, treat_count |-> old.treat, command_success_count |-> old.success]

SnapshotAfter(kind, ts) ==
    LET k == today_key(ts)
        dc == inc_counter(kind, ts)
    IN  [date |-> k, treat_count |-> dc[k].treat,
         command_success_count |-> dc[k].success]

\* recent_audio.append(entry) on a deque with maxlen
deque_append_unbounded(q, e) == Append(q, e)

deque_append(q, e) ==
    IF Len(q) >= RecentAudioMaxLen THEN Append(Tail(q), e) ELSE Append(q, e)

\* the arrival number of the next entry of q
next_seq(q) == IF q = <<>> THEN 1 ELSE q[Len(q)].seq + 1

\* the counter a message adds to: success when a match was made (m # 0),
\* treat for a treat_given, else none
counter_kind_echo(ev, m) ==
    IF m # 0 \/ ev = "command_success" THEN "success"
    ELSE IF ev = "treat_given" THEN "treat" ELSE "None"

counter_kind(ev, m) ==
    IF m # 0 THEN "success"
    ELSE IF ev = "treat_given" THEN "treat" ELSE "None"

\* the increments of date k that counters has and the store has not
Behind(counters, st, k) ==
    (IF k \in DOMAIN counters THEN counters[k].treat + counters[k].success ELSE 0)
    - (IF k \in DOMAIN st THEN st[k].treat_count + st[k].command_success_count ELSE 0)

\* write_event(envelope) for a daily_counters event, when it succeeds: one
\* more point of the measurement, with the payload's fields and a time of its
\* own (the envelope's time.time(), or the server's clock)
write_point(rows, payload) == Append(rows, payload)

\* /api/points: `limit` when the request names none, and the least number of
\* rows fetched
DefaultLimit == 100
FetchLimit == 500

\* `SELECT * FROM "daily_counters" ORDER BY time DESC LIMIT n`: the n newest
\* points
influx_query(rows, n) ==
    IF Len(rows) <= n THEN rows ELSE SubSeq(rows, Len(rows) - n + 1, Len(rows))

\* to_num summed over the rows of one date
RECURSIVE agg_sum(_, _, _)
agg_sum(rows, date, field) ==
    IF rows = <<>> THEN 0
    ELSE (IF Head(rows).date = date THEN Head(rows)[field] ELSE 0)
         + agg_sum(Tail(rows), date, field)

\* points() of influx_api.py for measurement=daily_counters: one row per date
\* of the rows fetched, the `limit` newest dates
points(rows, limit) ==
    LET got == influx_query(rows, IF limit > FetchLimit THEN limit ELSE FetchLimit)
        dates == {got[i].date : i \in DOMAIN got}
        merged == {d \in dates : Cardinality({e \in dates : e > d}) < limit}
    IN  [d \in merged |->
            [date |-> d,
             command_success_count |-> agg_sum(got, d, "command_success_count"),
             treat_count |-> agg_sum(got, d, "treat_count")]]

\* the directive sent to the device for a command_success
directive(succ) ==
    [cmd |-> "collector_broadcast", event |-> "command_success", payload |-> succ]

\* the body of the matching loop up to `# success!`: whether entry a is
\* taken for a pose_transition to to_lower at pose_ts
qualifies_matched_too(a, to_lower, pose_ts) ==
    /\ ~(a.ts > pose_ts)
    /\ ~(pose_ts - a.ts > MatchWindow)
    /\ IsSubstr(to_lower, Lower(a.text)) \/ IsSubstr(to_lower, Lower(a.filename))

qualifies_any_age(a, to_lower, pose_ts) ==
    /\ ~a.matched
    /\ ~(a.ts > pose_ts)
    /\ IsSubstr(to_lower, Lower(a.text)) \/ IsSubstr(to_lower, Lower(a.filename))

qualifies(a, to_lower, pose_ts) ==
    /\ ~a.matched
    /\ ~(a.ts > pose_ts)
    /\ ~(pose_ts - a.ts > MatchWindow)
    /\ IsSubstr(to_lower, Lower(a.text)) \/ IsSubstr(to_lower, Lower(a.filename))

\* `for a in list(recent_audio)[::-1]` up to its `break`: the index of the
\* entry matched, the newest that qualifies, or 0
MatchIndex_by_timestamp(q, to_pose, pose_ts) ==
    IF to_pose = None
    THEN 0
    ELSE LET hits == {i \in DOMAIN q : qualifies(q[i], Lower(to_pose), pose_ts)}
         IN  IF hits = {} THEN 0
             ELSE CHOOSE i \in hits :
                    \A j \in hits : q[j].ts < q[i].ts \/ (q[j].ts = q[i].ts /\ j <= i)

MatchIndex(q, to_pose, pose_ts) ==
    IF to_pose = None
    THEN 0
    ELSE LET hits == {i \in DOMAIN q : qualifies(q[i], Lower(to_pose), pose_ts)}
         IN  IF hits = {} THEN 0 ELSE CHOOSE i \in hits : \A j \in hits : j <= i

\* the write_event calls one message leads to: the command_success made from
\* it, the daily_counters event of _inc_counter, the message itself
write_calls_when_matched(ev, m, kind) ==
    (IF m # 0 THEN <<"command_success">> ELSE <<>>)
    \o (IF kind # "None" THEN <<"daily_counters">> ELSE <<>>)
    \o (IF ev = "pose_transition" /\ m = 0 THEN <<>> ELSE <<ev>>)

write_calls(ev, m, kind) ==
    (IF m # 0 THEN <<"command_success">> ELSE <<>>)
    \o (IF kind # "None" THEN <<"daily_counters">> ELSE <<>>)
    \o <<ev>>

\* the points a sequence of write_event calls adds to the measurement
\* command_success
success_writes(calls) == Cardinality({i \in DOMAIN calls : calls[i] = "command_success"})

\* the operation an envelope reports the audio of, 0 when it names none
envelope_cmd(data) == IF "cmd" \in DOMAIN data THEN data.cmd ELSE 0

\* one message of `async for msg in ws`: an event envelope; ok tells whether
\* the store takes the daily_counters event _inc_counter writes
collector_handle(data, ok) ==
    LET ts == data.timestamp
        q1 == IF data.event = "audio_playback"
              THEN deque_append(recent_audio,
                       [ts |-> ts, text |-> data.text, filename |-> data.filename,
                        matched |-> FALSE, nsucc |-> 0, seq |-> next_seq(recent_audio),
                        conn |-> nconn, cmd |-> envelope_cmd(data)])
              ELSE recent_audio
        m == IF data.event = "pose_transition" THEN MatchIndex(q1, data.to, ts) ELSE 0
        kind == counter_kind(data.event, m)
        succ == IF m # 0
                THEN <<[audio_ts |-> q1[m].ts, pose_ts |-> ts, entry |-> m,
                        seq |-> q1[m].seq, conn |-> q1[m].conn]>>
                ELSE <<>>
    IN  /\ nev < MaxEvents
        /\ nev' = nev + 1
        /\ data.event = "command_success" => pending > 0
        /\ kind = "None" => ok
        /\ recent_audio' = IF m # 0
                           THEN [q1 EXCEPT ![m].matched = TRUE, ![m].nsucc = @ + 1]
                           ELSE q1
        /\ IF kind # "None"
           THEN /\ daily_counters' = inc_counter(kind, ts)
                /\ snaps' = (today_key(ts) :> SnapshotAfter(kind, ts)) @@ snaps
                /\ seen' = Bump(seen, UtcDate(ts), kind)
                /\ stored' = IF ok
                             THEN (today_key(ts) :> SnapshotAfter(kind, ts)) @@ stored
                             ELSE stored
                /\ series' = IF ok
                             THEN write_point(series, SnapshotAfter(kind, ts))
                             ELSE series
           ELSE UNCHANGED <<daily_counters, snaps, seen, stored, series>>
        /\ pending' = IF m # 0 THEN pending + 1
                      ELSE IF data.event = "command_success" THEN pending - 1
                      ELSE pending
        /\ cout' = [event |-> data.event, timestamp |-> ts, to |-> data.to,
                    success |-> succ,
                    directives |-> [i \in DOMAIN succ |-> directive(succ[i])],
                    wrote |-> IF kind = "None" THEN "None"
                              ELSE IF ok THEN "ok" ELSE "failed",
                    behind |-> IF kind = "None" THEN 0
                               ELSE Behind(daily_counters, stored, today_key(ts)),
                    writes |-> write_calls(data.event, m, kind),
                    conn |-> nconn]
        /\ success_points' = success_points
                               + success_writes(write_calls(data.event, m, kind))
        /\ UNCHANGED linkVars

\* the same for a message whose sending is not followed
collector_on_event(data, ok) ==
    /\ collector_handle(data, ok)
    /\ UNCHANGED notCol

\* the collector while its connection lasts and the store takes every write
ColNext ==
    \/ \E data \in AudioEvents : collector_on_event(data, TRUE)
    \/ \E data \in PoseEvents : collector_on_event(data, TRUE)
    \/ \E data \in TreatEvents : collector_on_event(data, TRUE)
    \/ \E data \in OtherEvents \cup EchoEvents : collector_on_event(data, TRUE)

\* the events around one sit: the command, another audio, the posture
FullEvents ==
    {e \in AudioEvents : e.timestamp = DayLen - 5 /\ e.filename = <<>>}
    \cup {e \in PoseEvents : e.timestamp \in {DayLen - 1, DayLen} /\ e.to = s_sit}

\* the collector with recent_audio close to its maxlen
ColFullNext ==
    \E data \in FullEvents : collector_on_event(data, TRUE)

\* the events that count: treats on two dates, and a sit that is followed
StoreEvents ==
    {e \in TreatEvents : e.timestamp \in {DayLen - 1, DayLen}}
    \cup {e \in AudioEvents : e.timestamp = DayLen - 5 /\ e.text = s_sit}
    \cup {e \in PoseEvents : e.timestamp = DayLen /\ e.to = s_sit}

\* the collector with a store that can refuse a write
ColStoreNext ==
    \E data \in StoreEvents, ok \in BOOLEAN : collector_on_event(data, ok)

\* --- the connection ---------------------------------------------------------
\* the interval _collector_loop sleeps after the interval d
next_interval_backoff(d) == IF d = 0 THEN reconnect_interval ELSE 2 * d

next_interval(d) == reconnect_interval

\* the end of one pass of `while True:`, however the pass ended:
\* asyncio.sleep(reconnect_interval) starts
col_sleep ==
    /\ link' = "sleeping"
    /\ delay' = next_interval(delay)

\* websockets.connect succeeds
col_connect ==
    /\ link = "connecting"
    /\ hub_up
    /\ link' = "connected"
    /\ nconn' = IF nconn < 2 THEN nconn + 1 ELSE nconn
    /\ UNCHANGED <<recent_audio, daily_counters, snaps, seen, pending, nev, cout,
                   stored, series, success_points, hub_up, delay>>
    /\ UNCHANGED notCol

\* websockets.connect raises: the connection is refused
col_refused ==
    /\ link = "connecting"
    /\ ~hub_up
    /\ col_sleep
    /\ UNCHANGED <<recent_audio, daily_counters, snaps, seen, pending, nev, cout,
                   stored, series, success_points, hub_up, nconn>>
    /\ UNCHANGED notCol

\* `async for msg in ws` raises: the connection is lost, or the handling of a
\* message raised
col_lost ==
    /\ link = "connected"
    /\ col_sleep
    /\ UNCHANGED <<recent_audio, daily_counters, snaps, seen, pending, nev, cout,
                   stored, series, success_points, hub_up, nconn>>
    /\ UNCHANGED notCol

\* `async for msg in ws` ends: the server closed the connection normally
col_closed ==
    /\ link = "connected"
    /\ hub_up
    /\ col_sleep
    /\ UNCHANGED <<recent_audio, daily_counters, snaps, seen, pending, nev, cout,
                   stored, series, success_points, hub_up, nconn>>
    /\ UNCHANGED notCol

\* asyncio.sleep returns: the next pass of `while True:` starts
col_wake_fresh ==
    /\ link = "sleeping"
    /\ link' = "connecting"
    /\ recent_audio' = <<>>
    /\ daily_counters' = <<>>
    /\ UNCHANGED <<snaps, seen, pending, nev, cout,
                   stored, series, success_points, hub_up, delay, nconn>>
    /\ UNCHANGED notCol

col_wake ==
    /\ link = "sleeping"
    /\ link' = "connecting"
    /\ UNCHANGED <<recent_audio, daily_counters, snaps, seen, pending, nev, cout,
                   stored, series, success_points, hub_up, delay, nconn>>
    /\ UNCHANGED notCol

\* the server goes away or comes back
hub_toggle ==
    /\ hub_up' = ~hub_up
    /\ UNCHANGED <<recent_audio, daily_counters, snaps, seen, pending, nev, cout,
                   stored, series, success_points, link, delay, nconn>>
    /\ UNCHANGED notCol

\* a message arrives on the connection
col_receive ==
    /\ link = "connected"
    /\ \E data \in StoreEvents : collector_on_event(data, TRUE)

\* the messages that are not well-formed event envelopes: text that is not
\* JSON, a JSON value without type event, an audio_playback envelope whose
\* payload is a string, a treat_given envelope whose timestamp is a string
Malformed == {"non_json", "not_envelope", "bad_payload", "bad_timestamp"}

\* whether the handling of the message raises out of `async for`: json.loads
\* is inside a try and write_event catches what it raises, payload.get on a
\* string and utcfromtimestamp of a string are caught by nothing before
\* `except Exception` of the pass
raises(kind) == kind \in {"bad_payload", "bad_timestamp"}

\* a malformed message arrives on the connection
col_receive_malformed(kind) ==
    /\ link = "connected"
    /\ nev < MaxEvents
    /\ nev' = nev + 1
    /\ cout' = [NoCout EXCEPT !.event = kind, !.conn = nconn,
                              !.writes = IF kind = "not_envelope" THEN <<"status">>
                                         ELSE <<>>]
    /\ IF raises(kind)
       THEN col_sleep
       ELSE UNCHANGED <<link, delay>>
    /\ UNCHANGED <<recent_audio, daily_counters, snaps, seen, pending,
                   stored, series, success_points, hub_up, nconn>>
    /\ UNCHANGED notCol

\* the message the device sent first arrives on the connection
col_deliver ==
    /\ link = "connected"
    /\ wire # <<>>
    /\ collector_handle(Head(wire), TRUE)
    /\ wire' = Tail(wire)
    /\ UNCHANGED <<mode_state, MODE, previous_label, now, ticks, out, forced, autos,
                   ncmd, mth, lth>>
    /\ UNCHANGED <<hubVars, wsVars>>

\* the collector is connected and not at its bound, and the device has
\* nothing in flight to it
InStep == link = "connected" /\ wire = <<>> /\ nev < MaxEvents

\* the device with the collector as a client of its WebSocket server: the
\* main loop, an audio command of the host, and the collector receiving what
\* they send before the device goes on
AudioNext ==
    \/ col_connect
    \/ \E label \in Labels : InStep /\ main_cycle_dog(label)
    \/ InStep /\ on_host_command([cmd |-> "audio", arg |-> "sit"])
    \/ col_deliver

\* the collector and its connection
ColLinkNext ==
    \/ \E kind \in Malformed : col_receive_malformed(kind)
    \/ col_connect
    \/ col_refused
    \/ col_lost
    \/ col_closed
    \/ col_wake
    \/ hub_toggle
    \/ col_receive


(***************************************************************************)
(*                       PART 4 - host_comms.py                            *)
(***************************************************************************)
\* the threads that call _send_via_ws: the main thread (main's loop, through
\* send_event) and the thread of the server's event loop (a command handler
\* called from _handler, through send_event)
Threads == {"main", "loop"}

\* locals of one _send_via_ws call: pc is "idle", "copy" (inside
\* list(_ws_clients), holding the lock) or "send" (in `for ws in clients`);
\* copied is what list() has read so far, clients the finished list, sent the
\* clients whose ws.send has been scheduled; ran the scheduled ws.send
\* coroutines the event loop has run, got the clients whose ws.send wrote the
\* message to the connection, fallback whether send_event went on to the HTTP
\* POST after the call
NoSend == [pc |-> "idle", copied |-> {}, clients |-> {}, sent |-> {}, start |-> {},
           ran |-> {}, got |-> {}, fallback |-> FALSE]
NoHnd == [pc |-> "idle", ws |-> None]

WsInit ==
    /\ ws_clients = {}
    /\ ws_clients_lock = "None"
    /\ wcl = [c \in Conn |-> "new"]
    /\ hnd = NoHnd
    /\ snd = [th \in Threads |-> NoSend]
    /\ nsends = 0

\* `with _ws_clients_lock:` can be entered by a thread
lock_free_unchecked(holder) == TRUE

lock_free(holder) == holder = "None"

\* the loop thread is between two steps of its coroutines
LoopIdle == hnd.pc = "idle" /\ snd["loop"].pc = "idle"

\* _handler, first lines: a UI connects, `with _ws_clients_lock:` is entered
handler_connect(c) ==
    /\ wcl[c] = "new"
    /\ LoopIdle
    /\ lock_free(ws_clients_lock)
    /\ ws_clients_lock' = "loop"
    /\ hnd' = [pc |-> "add", ws |-> c]
    /\ UNCHANGED <<ws_clients, wcl, snd, nsends>>
    /\ UNCHANGED notWs

\* _ws_clients.add(ws), and the lock is released
handler_add ==
    /\ hnd.pc = "add"
    /\ ws_clients' = ws_clients \cup {hnd.ws}
    /\ ws_clients_lock' = "None"
    /\ wcl' = [wcl EXCEPT ![hnd.ws] = "open"]
    /\ hnd' = NoHnd
    /\ UNCHANGED <<snd, nsends>>
    /\ UNCHANGED notWs

\* _handler, `finally:`: the connection has ended, the lock is entered
handler_close(c) ==
    /\ wcl[c] = "open"
    /\ LoopIdle
    /\ lock_free(ws_clients_lock)
    /\ ws_clients_lock' = "loop"
    /\ hnd' = [pc |-> "discard", ws |-> c]
    /\ UNCHANGED <<ws_clients, wcl, snd, nsends>>
    /\ UNCHANGED notWs

\* _ws_clients.discard(ws), and the lock is released
handler_discard ==
    /\ hnd.pc = "discard"
    /\ ws_clients' = ws_clients \ {hnd.ws}
    /\ ws_clients_lock' = "None"
    /\ wcl' = [wcl EXCEPT ![hnd.ws] = "gone"]
    /\ hnd' = NoHnd
    /\ UNCHANGED <<snd, nsends>>
    /\ UNCHANGED notWs

\* _send_via_ws called in thread th: the lock is entered and list() starts.
\* The loop thread calls it from a command handler, while it handles a
\* message of an open connection
send_via_ws(th) ==
    /\ snd[th].pc = "idle"
    /\ th = "loop" => (hnd.pc = "idle" /\ \E c \in Conn : wcl[c] = "open")
    /\ nsends < MaxSends
    /\ lock_free(ws_clients_lock)
    /\ nsends' = nsends + 1
    /\ ws_clients_lock' = th
    /\ snd' = [snd EXCEPT ![th] = [NoSend EXCEPT !.pc = "copy", !.start = ws_clients]]
    /\ UNCHANGED <<ws_clients, wcl, hnd>>
    /\ UNCHANGED notWs

\* list(_ws_clients) reads one more member of the set
send_copy(th) ==
    /\ snd[th].pc = "copy"
    /\ \E u \in ws_clients \ snd[th].copied :
          snd' = [snd EXCEPT ![th].copied = @ \cup {u}]
    /\ UNCHANGED <<ws_clients, ws_clients_lock, wcl, hnd, nsends>>
    /\ UNCHANGED notWs

\* list(_ws_clients) is complete, and the lock is released
send_release(th) ==
    /\ snd[th].pc = "copy"
    /\ ws_clients \subseteq snd[th].copied
    /\ snd' = [snd EXCEPT ![th].pc = "send", ![th].clients = snd[th].copied]
    /\ ws_clients_lock' = "None"
    /\ UNCHANGED <<ws_clients, wcl, hnd, nsends>>
    /\ UNCHANGED notWs

\* the clients `for ws in clients` has still to visit
send_targets(d) == d.clients \ d.sent

\* one pass of `for ws in clients`: ws.send(text) is scheduled on the loop
send_one(th) ==
    /\ snd[th].pc = "send"
    /\ \E u \in send_targets(snd[th]) :
          snd' = [snd EXCEPT ![th].sent = @ \cup {u}]
    /\ UNCHANGED <<ws_clients, ws_clients_lock, wcl, hnd, nsends>>
    /\ UNCHANGED notWs

\* sent_any: set by each pass of the loop whose ws.send was scheduled
sent_any(d) == d.sent # {}

\* send_event after _send_via_ws: it returns when the call returned True and
\* goes on to the HTTP POST otherwise
http_fallback(d) == ~sent_any(d)

\* `for ws in clients` is over: return sent_any, and send_event returns or
\* falls back to HTTP
send_return(th) ==
    /\ snd[th].pc = "send"
    /\ send_targets(snd[th]) = {}
    /\ snd' = [snd EXCEPT ![th].pc = "idle", ![th].fallback = http_fallback(snd[th])]
    /\ UNCHANGED <<ws_clients, ws_clients_lock, wcl, hnd, nsends>>
    /\ UNCHANGED notWs

\* the event loop runs a coroutine that run_coroutine_threadsafe scheduled:
\* ws.send(text) writes the message when the connection is open and raises
\* ConnectionClosed into a future nobody reads when it is not
send_coro(th) ==
    /\ LoopIdle
    /\ \E u \in snd[th].sent \ snd[th].ran :
          snd' = [snd EXCEPT ![th].ran = @ \cup {u},
                             ![th].got = IF wcl[u] = "open" THEN @ \cup {u} ELSE @]
    /\ UNCHANGED <<ws_clients, ws_clients_lock, wcl, hnd, nsends>>
    /\ UNCHANGED notWs

WsNext ==
    \/ \E c \in Conn : handler_connect(c)
    \/ handler_add
    \/ \E c \in Conn : handler_close(c)
    \/ handler_discard
    \/ \E th \in Threads : send_via_ws(th)
    \/ \E th \in Threads : send_copy(th)
    \/ \E th \in Threads : send_release(th)
    \/ \E th \in Threads : send_one(th)
    \/ \E th \in Threads : send_return(th)
    \/ \E th \in Threads : send_coro(th)


(***************************************************************************)
(*                           Specifications                                *)
(***************************************************************************)
Init == HubInit /\ CtlInit /\ ColInit /\ WsInit

\* the mediator alone
HubSpec == Init /\ [][HubNext]_vars

\* the mediator and its HTTP fallback
HubHttpSpec == Init /\ [][HubHttpNext]_vars

\* the mediator and its read endpoint
HubReadSpec == Init /\ [][HubReadNext]_vars

\* the event loop runs a task that can run: a _broadcast_ui call whose send
\* has returned or raised goes on, and one that has visited all returns
HubFairness ==
    \A t \in Tasks : WF_vars(broadcast_resume(t)) /\ WF_vars(broadcast_return(t))

\* the mediator with peers that stop reading
HubStallSpec == Init /\ [][HubStallNext]_vars /\ HubFairness

\* the session controller alone
CtlSpec == Init /\ [][CtlNext]_vars

\* the session controller with its two threads
CtlThreadSpec == Init /\ [][CtlThreadNext]_vars

\* the collector alone
ColSpec == Init /\ [][ColNext]_vars

\* the collector with recent_audio one short of full
FullInit == HubInit /\ CtlInit /\ ColFullInit /\ WsInit
ColFullSpec == FullInit /\ [][ColFullNext]_vars

\* the collector and a store that can refuse a write
ColStoreSpec == Init /\ [][ColStoreNext]_vars

\* a sleep ends, and a connection attempt comes to its end
ColLinkFairness ==
    WF_vars(col_wake) /\ WF_vars(col_connect) /\ WF_vars(col_refused)

\* the collector and its connection
ColLinkSpec == Init /\ [][ColLinkNext]_vars /\ ColLinkFairness

\* the device's WebSocket server alone
WsSpec == Init /\ [][WsNext]_vars

\* the device and the collector connected to it
AudioSpec == Init /\ [][AudioNext]_vars

(***************************************************************************)
(* Claims about the mediator, checked under HubSpec.                       *)
(***************************************************************************)

\* C1 - single device: the device slot holds nobody or the connection whose
\* register(role:device) was handled last, and a frame a UI sends is handed
\* to that connection only, never to an earlier device connection.
HubSingleDevice ==
    /\ DEVICE # None => DEVICE = lastDevReg
    /\ last.to # {} => last.to = {lastDevReg}

\* C1 witness: two connections have registered as device, the first is still
\* open, and a UI frame has just been handed to the second.
HubSingleDeviceWitness ==
    /\ last.to = {lastDevReg}
    /\ role[last.conn] = "ui"
    /\ \E c \in Conn : c # lastDevReg /\ role[c] = "device" /\ sock[c] = "open"

\* what a _broadcast_ui call has done with the UIs of its snapshot: each one
\* visited was sent the message once, or the send failed and the UI is noted
\* for removal; the ones not visited yet are still to come
BroadcastVisited(b) ==
    /\ b.todo \subseteq b.snap
    /\ b.fail \subseteq b.snap
    /\ \A u \in b.snap \ b.todo :
          \/ b.got[u] = 1 /\ u \notin b.fail
          \/ b.got[u] = 0 /\ u \in b.fail
    /\ \A u \in Conn \ (b.snap \ b.todo) : b.got[u] = 0 /\ u \notin b.fail

\* C2 - fan-out isolation: in every broadcast each UI of the snapshot gets
\* the message exactly once unless the send to that UI itself failed (a
\* failed send does not end the loop), and when the broadcast returns the
\* whole snapshot has been visited and every UI whose send failed is out of
\* the UI set.
HubFanOutIsolation ==
    /\ [](\A t \in Conn : hpc[t] = "bcast" => BroadcastVisited(bc[t]))
    /\ [][\A t \in Conn : (hpc[t] = "bcast" /\ hpc'[t] # "bcast") =>
            /\ bc[t].todo = {}
            /\ UIS' \cap bc[t].fail = {}]_hubVars

\* C2 witness: a broadcast over at least two UIs is about to return; the
\* send to one UI failed and another UI got the message.
HubFanOutIsolationWitness ==
    \E t \in Conn :
        /\ hpc[t] = "bcast"
        /\ bc[t].todo = {}
        /\ \E u, v \in bc[t].snap : u # v /\ u \in bc[t].fail /\ bc[t].got[v] = 1

\* a frame was handled in this step on a connection that had not registered,
\* and the frame is no register message with role device or ui
UnregisteredFrame ==
    /\ nframes' = nframes + 1
    /\ role[last'.conn] = "None"
    /\ last'.kind # "register"

\* what C10 says such a step does, but for the reply
GateLeavesAllAlone ==
    /\ last'.to = {}
    /\ sock'[last'.conn] = "open"
    /\ hpc'[last'.conn] = "recv"
    /\ role'[last'.conn] = "None"
    /\ bc' = bc
    /\ DEVICE' = DEVICE
    /\ UIS' = UIS

\* C10 - registration gate, as claimed: every frame other than a valid
\* register message on an unregistered connection, JSON or not, is answered
\* with not_registered, reaches no device and no UI, and leaves the
\* connection open and unregistered and DEVICE and UIS as they were.
HubRegistrationGate ==
    [][UnregisteredFrame => (last'.reply = "not_registered" /\ GateLeavesAllAlone)]_hubVars

\* the part of C10 the code keeps: JSON frames are answered with
\* not_registered, and no frame of either kind is forwarded or changes the
\* registrations
HubRegistrationGateJson ==
    [][UnregisteredFrame =>
          /\ last'.kind = "json" => last'.reply = "not_registered"
          /\ GateLeavesAllAlone]_hubVars

\* in a step: a JSON frame that is no register message was handled on a
\* connection whose handler has role ui
UiJsonFrame ==
    /\ nframes' = nframes + 1
    /\ last'.kind = "json"
    /\ role[last'.conn] = "ui"

\* C11 - UI-to-device routing: a JSON frame from a registered UI is handed to
\* the device, as the same JSON value, when a device is registered and the
\* send returns; with no device registered the sender is answered
\* no_device_connected, and when the send raises it is answered
\* failed_to_send_to_device; in all three cases nothing is handed to any
\* connection but the device, no broadcast starts, and the sender stays
\* open, with role ui and in the UI set.
HubUiToDevice ==
    [][UiJsonFrame =>
          /\ (DEVICE # None /\ SendOk(DEVICE)) =>
                /\ last'.to = {DEVICE}
                /\ last'.reply = "None"
                /\ json_loads(last'.sent) = json_loads(strip(last'.text))
          /\ DEVICE = None =>
                (last'.to = {} /\ last'.reply = "no_device_connected")
          /\ (DEVICE # None /\ ~SendOk(DEVICE)) =>
                (last'.to = {} /\ last'.reply = "failed_to_send_to_device")
          /\ bc' = bc /\ hpc' = hpc
          /\ sock'[last'.conn] = "open"
          /\ role'[last'.conn] = "ui"
          /\ last'.conn \in UIS'
          /\ UIS' = UIS /\ DEVICE' = DEVICE]_hubVars

\* C11 witness: with two UIs registered and open, one of them has just got
\* failed_to_send_to_device for a JSON frame, the device connection being
\* closed and still in the device slot.
HubUiToDeviceWitness ==
    /\ last.kind = "json"
    /\ last.reply = "failed_to_send_to_device"
    /\ role[last.conn] = "ui"
    /\ DEVICE # None
    /\ \E u \in UIS : u # last.conn /\ sock[u] = "open"

\* the close of connection c has been handled: its handler has left
\* through `finally:`
Closed(c) == hpc[c] = "done"

\* C12 - close cleanup, as claimed: the step that handles the close of a
\* connection takes it out of the device slot and of the UI set and changes
\* no other registration, so the device slot and the UI set never hold a
\* connection whose close has been handled.
HubCloseCleanup ==
    /\ [](/\ DEVICE # None => ~Closed(DEVICE)
          /\ \A u \in UIS : ~Closed(u))
    /\ [][\A c \in Conn : (hpc[c] # "done" /\ hpc'[c] = "done") =>
            /\ DEVICE' = IF DEVICE = c THEN None ELSE DEVICE
            /\ UIS' = UIS \ {c}]_hubVars

\* the part of C12 the code keeps: a closed connection is out of the device
\* slot if its handler's role is device and out of the UI set if it is ui
HubCloseCleanupByRole ==
    /\ (DEVICE # None /\ role[DEVICE] = "device") => ~Closed(DEVICE)
    /\ \A u \in UIS : role[u] = "ui" => ~Closed(u)

\* C13 - role fixity, as claimed: once the handler of a connection has a
\* role, a later frame on that connection does not change it, and no
\* connection is in the UI set and in the device slot at once.
HubRoleFixity ==
    /\ [](\A c \in Conn : ~(c \in UIS /\ DEVICE = c))
    /\ [][\A c \in Conn : role[c] # "None" => role'[c] = role[c]]_hubVars

\* a broadcast is under way in task t, to connections that registered as ui
BroadcastToUis(t) == hpc[t] = "bcast" /\ \A c \in bc[t].snap : role[c] = "ui"

\* C14 - bounded send, as claimed: while a broadcast is under way, every UI
\* of its snapshot that is open and reading is eventually sent the message,
\* and the broadcast eventually returns, so that the next device message is
\* read, whatever the other UIs do.
HubBoundedSend ==
    /\ \A t \in Tasks, u \in Conn :
          (BroadcastToUis(t) /\ u \in bc[t].todo /\ SendOk(u))
              ~> (u \notin bc[t].todo \/ ~SendOk(u))
    /\ \A t \in Tasks : BroadcastToUis(t) ~> (hpc[t] # "bcast")

\* C15 - registration race: however the registrations and closes of the
\* connections interleave, the device slot holds the connection whose
\* register(role:device) was handled last for as long as the close of that
\* connection has not been handled; the close of an earlier registrant
\* does not empty the slot.
HubRegistrationRace ==
    (lastDevReg # None /\ ~Closed(lastDevReg)) => DEVICE = lastDevReg

\* C15 witness: two connections registered as device; the close of the one
\* that registered first has been handled, the other is open and holds the
\* device slot.
HubRegistrationRaceWitness ==
    /\ lastDevReg # None
    /\ sock[lastDevReg] = "open"
    /\ DEVICE = lastDevReg
    /\ \E c \in Conn : c # lastDevReg /\ role[c] = "device" /\ Closed(c)

\* the part of C16 that is about _broadcast_ui, checked under HubSpec: the
\* snapshot of a broadcast is the UI set at its start and stays what it is
\* while UIs register and are removed; C2 adds that the sends go to the
\* snapshot
HubBroadcastSnapshot ==
    [][\A t \in Tasks :
          /\ (hpc[t] # "bcast" /\ hpc'[t] = "bcast") => bc'[t].snap = UIS
          /\ (hpc[t] = "bcast" /\ hpc'[t] = "bcast") => bc'[t].snap = bc[t].snap]_hubVars

\* in a step: a frame that is not JSON was handled on a connection whose
\* handler has a role
RegisteredTextFrame ==
    /\ nframes' = nframes + 1
    /\ last'.kind = "text"
    /\ role[last'.conn] # "None"

\* in a step: the handler of the frame's connection goes on, and the
\* connection is registered as it was
StaysRegistered ==
    /\ sock'[last'.conn] = "open"
    /\ hpc'[last'.conn] # "done"
    /\ role'[last'.conn] = role[last'.conn]
    /\ last'.conn \in UIS <=> last'.conn \in UIS'
    /\ DEVICE = last'.conn <=> DEVICE' = last'.conn

\* in a step: the text of a device's frame was wrapped and a broadcast of it
\* to the UI set has started
RawBroadcast ==
    /\ last'.sent = json_dumps(raw_message(strip(last'.text)))
    /\ last'.to = {}
    /\ UIS # {} => (hpc'[last'.conn] = "bcast" /\ bc'[last'.conn].snap = UIS)

\* C17 - malformed-peer tolerance, as claimed: a frame that is not JSON from
\* a registered connection leaves the connection open and registered; from
\* a device it is wrapped and broadcast; from a UI it is handed to the
\* device, and the UI is answered no_device_connected when no device is
\* registered and failed_to_send_to_device when the send raises.
HubMalformedPeer ==
    [][RegisteredTextFrame =>
          /\ StaysRegistered
          /\ role[last'.conn] = "device" => RawBroadcast
          /\ role[last'.conn] = "ui" =>
                /\ last'.reply = route_reply(DEVICE)
                /\ last'.to = IF DEVICE # None /\ SendOk(DEVICE) THEN {DEVICE} ELSE {}
                /\ last'.to # {} => last'.sent = strip(last'.text)]_hubVars

\* the part of C17 the code keeps: the device's text is wrapped and
\* broadcast, and a UI's text is handed to the device when one is registered
\* and the send returns
HubRawPassThrough ==
    [][RegisteredTextFrame =>
          /\ role[last'.conn] = "device" => (RawBroadcast /\ StaysRegistered)
          /\ (role[last'.conn] = "ui" /\ DEVICE # None /\ SendOk(DEVICE)) =>
                /\ last'.to = {DEVICE}
                /\ last'.sent = strip(last'.text)
                /\ StaysRegistered]_hubVars

\* connection c registered as device and another registration has taken
\* the device slot from it since; its handler still waits for frames
Evicted(c) ==
    /\ role[c] = "device"
    /\ DEVICE # c
    /\ hpc[c] = "recv"

\* in a step: a frame that is no register message was handled on an evicted
\* connection
EvictedFrame ==
    /\ nframes' = nframes + 1
    /\ last'.kind \in {"json", "text"}
    /\ Evicted(last'.conn)

\* in a step: the close of an evicted connection was handled
EvictedClose ==
    \E c \in Conn : Evicted(c) /\ hpc'[c] = "done"

\* C39 - evicted device, as claimed: a frame arriving on an evicted
\* connection is not treated as a device message (no broadcast to the UIs
\* starts), the close of an evicted connection leaves the device slot as it
\* is, and a UI's frame is handed to nobody but the connection in the slot.
HubEvictedDevice ==
    [][/\ EvictedFrame => (bc' = bc /\ hpc' = hpc)
       /\ EvictedClose => DEVICE' = DEVICE
       /\ (nframes' = nframes + 1 /\ role[last'.conn] = "ui") =>
             last'.to \subseteq {DEVICE}]_hubVars

\* the part of C39 the code keeps: the close of an evicted connection leaves
\* the device slot as it is, and a UI's frame is handed to nobody but the
\* connection in the slot
HubEvictedClose ==
    [][/\ EvictedClose => DEVICE' = DEVICE
       /\ (nframes' = nframes + 1 /\ role[last'.conn] = "ui") =>
             last'.to \subseteq {DEVICE}]_hubVars

(***************************************************************************)
(* Claims about the mediator's HTTP endpoints, checked under HubReadSpec    *)
(* and HubHttpSpec.                                                        *)
(***************************************************************************)

\* C18 - read endpoint, as claimed: GET /api/clients reports
\* device_connected true exactly when the device slot holds a connection
\* whose close has not been handled, and as ui_count the number of such
\* connections in the UI set.
HubReadEndpoint ==
    last.kind = "clients" =>
        last.clients = << DEVICE # None /\ ~Closed(DEVICE),
                          Cardinality({u \in UIS : ~Closed(u)}) >>

\* the payload of an event envelope, as a JSON value
PayloadOf(v) ==
    IF \E i \in 2..(Len(v) - 2) : v[i] = "payload" /\ v[i + 1] = ":"
    THEN LET i == CHOOSE j \in 2..(Len(v) - 2) : v[j] = "payload" /\ v[j + 1] = ":"
         IN  SubSeq(v, i + 2, Len(v) - 1)
    ELSE <<>>

\* C19 - HTTP fallback ingestion: a POST /api/status with a JSON body is
\* answered ok and starts a broadcast, over the UI set as it is, of an event
\* named status with the body as payload, with or without a device
\* registered; the broadcast visits every UI of its snapshot and drops the
\* UIs whose send failed, as a device's does; a body that is not JSON is
\* answered invalid_json and starts no broadcast; the device slot and the
\* UI set are what they were in both cases.
HubHttpIngestion ==
    /\ [](hpc[Http] = "bcast" => BroadcastVisited(bc[Http]))
    /\ [][/\ (hpc[Http] = "bcast" /\ hpc'[Http] # "bcast") =>
                (bc[Http].todo = {} /\ UIS' \cap bc[Http].fail = {})
          /\ (nframes' = nframes + 1 /\ last'.kind = "status") =>
                /\ DEVICE' = DEVICE /\ UIS' = UIS
                /\ IF IsJson(strip(last'.text))
                   THEN /\ last'.reply = "ok"
                        /\ Get(json_loads(last'.sent), "type") = "event"
                        /\ Get(json_loads(last'.sent), "event") = "status"
                        /\ PayloadOf(json_loads(last'.sent)) = json_loads(last'.text)
                        /\ IF UIS = {}
                           THEN bc' = bc /\ hpc' = hpc
                           ELSE hpc'[Http] = "bcast" /\ bc'[Http].snap = UIS
                   ELSE /\ last'.reply = "invalid_json"
                        /\ last'.sent = <<>>
                        /\ bc' = bc /\ hpc' = hpc]_hubVars

\* C19 witness: with no device registered, a POST with a JSON body has just
\* been answered ok; its broadcast goes to two UIs and the send to the
\* first one failed.
HubHttpIngestionWitness ==
    /\ last.kind = "status"
    /\ last.reply = "ok"
    /\ DEVICE = None
    /\ hpc[Http] = "bcast"
    /\ Cardinality(bc[Http].snap) = 2
    /\ bc[Http].fail # {}

(***************************************************************************)
(* Claims about the session controller, checked under CtlSpec.             *)
(***************************************************************************)

\* in a step: the iteration just taken called automatic_mode_logic
StepRan == out'.op = "step"

\* in a step: the iteration just taken is a control cycle of the main loop,
\* with or without a detected subject
CycleRan == out'.op \in {"step", "cycle"}

\* the timeout condition of waiting_sit, at the current time
TimedOut == now - mode_state.last_command_time > TREAT_WINDOW

CountEv(evs, e) == Cardinality({i \in DOMAIN evs : evs[i] = e})

TreatsGiven(evs) == Cardinality({i \in DOMAIN evs : evs[i].name = "treat_given"})

\* C3 - transition relation, as claimed: the stage starts at waiting_stand
\* and changes only along waiting_stand -> waiting_sit (label stand),
\* waiting_sit -> waiting_stand (timeout), waiting_sit -> cooldown (treat
\* dispensed, and not when the timeout condition holds) and
\* cooldown -> waiting_stand (cooldown expired).
CtlTransitionRelation ==
    /\ [](out.op = "None" => mode_state.stage = "waiting_stand")
    /\ [][mode_state'.stage # mode_state.stage =>
            /\ StepRan
            /\ \/ /\ mode_state.stage = "waiting_stand"
                  /\ mode_state'.stage = "waiting_sit"
                  /\ out'.label = "stand"
               \/ /\ mode_state.stage = "waiting_sit"
                  /\ mode_state'.stage = "waiting_stand"
                  /\ TimedOut
               \/ /\ mode_state.stage = "waiting_sit"
                  /\ mode_state'.stage = "cooldown"
                  /\ out'.sweeps = 1
                  /\ ~TimedOut
               \/ /\ mode_state.stage = "cooldown"
                  /\ mode_state'.stage = "waiting_stand"
                  /\ now > mode_state.cooldown_until]_vars

\* the edges of C3 the code keeps: the same relation without the condition
\* that waiting_sit -> cooldown is not taken once the timeout condition holds
CtlTransitionEdges ==
    [][mode_state'.stage # mode_state.stage =>
            /\ StepRan
            /\ \/ /\ mode_state.stage = "waiting_stand"
                  /\ mode_state'.stage = "waiting_sit"
                  /\ out'.label = "stand"
               \/ /\ mode_state.stage = "waiting_sit"
                  /\ mode_state'.stage = "waiting_stand"
                  /\ TimedOut
               \/ /\ mode_state.stage = "waiting_sit"
                  /\ mode_state'.stage = "cooldown"
                  /\ out'.sweeps = 1
               \/ /\ mode_state.stage = "cooldown"
                  /\ mode_state'.stage = "waiting_stand"
                  /\ now > mode_state.cooldown_until]_vars

\* C4 - timeout wins over sit, as claimed: a step taken in waiting_sit with
\* now - last_command_time > TREAT_WINDOW ends in waiting_stand with no
\* servo sweep, no treat_given and cooldown_until unchanged, whatever the
\* label.
CtlTimeoutWins ==
    [][(StepRan /\ mode_state.stage = "waiting_sit" /\ TimedOut) =>
            /\ mode_state'.stage = "waiting_stand"
            /\ out'.sweeps = 0
            /\ TreatsGiven(out'.events) = 0
            /\ mode_state'.cooldown_until = mode_state.cooldown_until]_vars

\* C5 - auto treat on sit within the window: a step taken in waiting_sit
\* with treats not disabled, now - last_command_time <= TREAT_WINDOW and
\* label sit sweeps the servo once, emits one treat_given{reason:auto} (and
\* no other treat_given) and one servo_action{action:sweep}, sets
\* cooldown_until = now + TREAT_COOLDOWN and moves to cooldown.
CtlAutoTreat ==
    [][(/\ StepRan
        /\ mode_state.stage = "waiting_sit"
        /\ ~mode_state.treat_disabled
        /\ ~TimedOut
        /\ out'.label = "sit") =>
            /\ out'.sweeps = 1
            /\ CountEv(out'.events, Ev("treat_given", "auto")) = 1
            /\ TreatsGiven(out'.events) = 1
            /\ CountEv(out'.events, Ev("servo_action", "sweep")) = 1
            /\ mode_state'.cooldown_until = now + TREAT_COOLDOWN
            /\ mode_state'.stage = "cooldown"]_vars

\* C5 witness: stand at t = 0, then sit at t = 3: the step at t = 3 has just
\* given the one treat and cooldown_until is 3 + TREAT_COOLDOWN.
CtlAutoTreatWitness ==
    /\ now = 3
    /\ out.op = "step"
    /\ out.label = "sit"
    /\ mode_state.last_command_time = 0
    /\ mode_state.stage = "cooldown"
    /\ mode_state.cooldown_until = 3 + TREAT_COOLDOWN
    /\ out.sweeps = 1
    /\ CountEv(out.events, Ev("treat_given", "auto")) = 1

\* C6 - timeout without further posture, as claimed: every control cycle
\* in auto mode, with or without a detected subject, that runs in
\* waiting_sit with now - last_command_time > TREAT_WINDOW and sees no sit
\* ends in waiting_stand without a treat, and every control cycle that runs
\* in cooldown with now > cooldown_until ends in waiting_stand.
CtlTimeoutWithoutPosture ==
    [][(CycleRan /\ MODE = "auto") =>
            /\ (mode_state.stage = "waiting_sit" /\ TimedOut /\ out'.label # "sit") =>
                  (mode_state'.stage = "waiting_stand" /\ out'.sweeps = 0)
            /\ (mode_state.stage = "cooldown" /\ now > mode_state.cooldown_until) =>
                  mode_state'.stage = "waiting_stand"]_vars

\* the part of C6 the code keeps: the same for the cycles in which a subject
\* was detected
CtlTimeoutWhenDetected ==
    [][StepRan =>
            /\ (mode_state.stage = "waiting_sit" /\ TimedOut /\ out'.label # "sit") =>
                  (mode_state'.stage = "waiting_stand" /\ out'.sweeps = 0)
            /\ (mode_state.stage = "cooldown" /\ now > mode_state.cooldown_until) =>
                  mode_state'.stage = "waiting_stand"]_vars

\* in a step: the label the cycle just taken observed, "None" when no
\* subject was detected
Observed == IF out'.label = "nodog" THEN "None" ELSE out'.label

\* the pose_transition events among evs, in order
PoseTransitions(evs) == SelectSeq(evs, LAMBDA e : e.name = "pose_transition")

\* in a step: what C20 says a cycle emits, previous_label being the label of
\* the cycle before
TransitionNotified ==
    /\ PoseTransitions(out'.events) =
          IF Observed # previous_label
          THEN <<Ev("pose_transition", previous_label \o "->" \o Observed)>>
          ELSE <<>>
    /\ previous_label' = Observed

\* C20 - pose-transition notification, as claimed: every control cycle, with
\* or without a detected subject, in either mode and any stage, emits one
\* pose_transition{from: previous label, to: observed label} when the
\* observed label differs from the label of the cycle before, and none
\* when it is the same.
CtlPoseTransition ==
    [][CycleRan => TransitionNotified]_vars

\* the part of C20 the code keeps: the same for the cycles in which a
\* subject was detected
CtlPoseTransitionWhenDetected ==
    [][(CycleRan /\ out'.label # "nodog") => TransitionNotified]_vars

\* C21 - force-treat override, as claimed: once override_treat{mode:force}
\* has been received, the next step taken in waiting_sit that is neither
\* timed out nor disabled sweeps the servo whatever the label, emits
\* treat_given{reason:force_treat} and servo_action{action:sweep}, clears the
\* force request, sets cooldown_until = now + TREAT_COOLDOWN and moves to
\* cooldown.
CtlForceTreat ==
    [][(StepRan /\ forced /\ eligible(mode_state, now)) =>
            /\ out'.sweeps = 1
            /\ CountEv(out'.events, Ev("treat_given", "force_treat")) = 1
            /\ CountEv(out'.events, Ev("servo_action", "sweep")) = 1
            /\ ~forced'
            /\ mode_state'.cooldown_until = now + TREAT_COOLDOWN
            /\ mode_state'.stage = "cooldown"]_vars

\* what the code does with override_treat{mode:force}: nothing but a log
\* line; a step after it behaves as automatic_mode_logic does without it
CtlForceIgnored ==
    [][/\ (out'.op = "cmd" /\ out'.msg = [cmd |-> "override_treat", arg |-> "force"]) =>
              (mode_state' = mode_state /\ out'.events = <<>> /\ out'.sweeps = 0)
       /\ (StepRan /\ forced /\ eligible(mode_state, now) /\ out'.label # "sit") =>
              (out'.sweeps = 0 /\ mode_state' = mode_state)]_vars

\* a command _on_host_command or POST /set_mode does not recognize: no cmd,
\* an unknown cmd, or an unknown mode or action
Unrecognized(msg) ==
    \/ msg.cmd \in {"None", "bogus"}
    \/ msg.cmd \in {"set_mode", "servo", "override_treat"} /\ msg.arg = "bogus"

\* in a step: nothing happened but a log line
Ignored ==
    /\ MODE' = MODE
    /\ mode_state' = mode_state
    /\ previous_label' = previous_label
    /\ out'.events = <<>>
    /\ out'.sweeps = 0
    /\ out'.says = <<>>
    /\ out'.reply = "None"

\* C26 - unknown or invalid commands, as claimed: a command that is not
\* recognized, over the WebSocket or as POST /set_mode, leaves config.MODE
\* and mode_state unchanged, emits no event and sends nothing back to the
\* sender; and config.MODE is always auto or manual.
CtlInvalidCommand ==
    /\ [](MODE \in {"auto", "manual"})
    /\ [][(out'.op \in {"cmd", "http"} /\ Unrecognized(out'.msg)) => Ignored]_vars

\* the part of C26 the code keeps: the same for the commands that arrive
\* over the WebSocket, and for POST /set_mode without the reply
CtlInvalidCommandWs ==
    /\ [](MODE \in {"auto", "manual"})
    /\ [][/\ (out'.op = "cmd" /\ Unrecognized(out'.msg)) => Ignored
          /\ (out'.op = "http" /\ Unrecognized(out'.msg)) =>
                (MODE' = MODE /\ mode_state' = mode_state /\ out'.events = <<>>)]_vars

\* the device's half of C28: a collector_broadcast directive makes the device
\* send the event it names, once, and changes nothing else
CtlRebroadcast ==
    [][(out'.op = "cmd" /\ out'.msg.cmd = "collector_broadcast") =>
            /\ out'.events = <<Ev(out'.msg.arg, "payload")>>
            /\ out'.sweeps = 0
            /\ mode_state' = mode_state
            /\ MODE' = MODE]_vars

\* the step just taken gave say() the text "sit"
SaidSit == \E i \in DOMAIN out'.says : out'.says[i] = "sit"

\* C37 - cooldown separation: any two automatic dispenses are more than
\* TREAT_COOLDOWN seconds apart, and the control loop says "sit" only when
\* no automatic dispense was made yet or the cooldown of the last one has
\* expired.
CtlCooldown ==
    /\ [](\A i, j \in DOMAIN autos : i < j => autos[j] - autos[i] > TREAT_COOLDOWN)
    /\ [][(StepRan /\ SaidSit) =>
             \/ autos = <<>>
             \/ now > autos[Len(autos)] + TREAT_COOLDOWN]_vars

\* C37 witness: a second automatic dispense has just been made, after a
\* cooldown that had expired and a new "sit".
CtlCooldownWitness ==
    /\ Len(autos) = 2
    /\ autos[2] = now
    /\ out.op = "step"
    /\ out.sweeps = 1
    /\ mode_state.stage = "cooldown"

(***************************************************************************)
(* Claims about the session controller and its threads, checked under      *)
(* CtlThreadSpec.                                                          *)
(***************************************************************************)

\* in a step: the main thread ran automatic_mode_logic, or a part of it
LogicRan == out'.op \in {"step", "enter"}

\* in a step: the main thread ran a part of its loop iteration
LoopRan == out'.op \in {"read", "cycle", "step", "enter"}

\* in a step: the loop thread ran a command handler, or a part of it
CommandRan == out'.op \in {"cmd", "begin"}

\* the main thread is inside automatic_mode_logic
StepInProgress == mth.pc = "act"

\* the main thread is inside the servo.sweep() of automatic_mode_logic
MainSweeping == mth.pc = "act" /\ mth.plan[1].sweeps = 1

\* C22 - treat disable override, as claimed: while treats are disabled (from
\* override_treat{mode:disable} to the next override_treat{mode:enable}) no
\* control step sweeps the servo or emits treat_given; a step in waiting_sit
\* that has not timed out leaves mode_state unchanged whatever the label,
\* and one that has timed out moves to waiting_stand and changes nothing
\* else.
CtlTreatDisabled ==
    [][(LogicRan /\ mode_state.treat_disabled) =>
            /\ out'.sweeps = 0
            /\ TreatsGiven(out'.events) = 0
            /\ mode_state.stage = "waiting_sit" =>
                  mode_state' = IF TimedOut
                                THEN [mode_state EXCEPT !.stage = "waiting_stand"]
                                ELSE mode_state]_vars

\* the part of C22 the code keeps: the same for a step that is entered while
\* treats are disabled
CtlTreatDisabledAtEntry ==
    [][(LogicRan /\ mode_state.treat_disabled /\ mth.pc = "gate") =>
            /\ out'.sweeps = 0
            /\ TreatsGiven(out'.events) = 0
            /\ mth'.pc = "act" => mth'.plan[1].sweeps = 0
            /\ mode_state.stage = "waiting_sit" =>
                  mode_state' = IF TimedOut
                                THEN [mode_state EXCEPT !.stage = "waiting_stand"]
                                ELSE mode_state]_vars

\* the events of the state table among evs
TableEvents(evs) ==
    SelectSeq(evs, LAMBDA e : e.name \in {"treat_given", "servo_action"})

\* in a step: stage, last_command_time and cooldown_until stay as they are
TableUntouched ==
    /\ mode_state'.stage = mode_state.stage
    /\ mode_state'.last_command_time = mode_state.last_command_time
    /\ mode_state'.cooldown_until = mode_state.cooldown_until

\* in a step: a set_mode command with mode auto or manual was handled
SetModeRan == out'.op = "cmd" /\ out'.msg.cmd = "set_mode" /\ out'.msg.arg \in {"auto", "manual"}

\* C23 - manual mode gating, as claimed: while config.MODE is manual, no
\* loop iteration goes into the state table: none of its parts, but the end
\* of a step that was under way when the mode changed, changes stage,
\* last_command_time or cooldown_until, says "sit", sweeps the servo or
\* emits treat_given or servo_action; an iteration that classified a pose
\* still emits pose_transition when the label changed; and a set_mode
\* command with auto or manual sets config.MODE and emits mode_changed with
\* the new mode.
CtlManualGating ==
    [][/\ (LoopRan /\ MODE = "manual" /\ ~StepInProgress) =>
              /\ ~LogicRan
              /\ TableUntouched
              /\ out'.says = <<>>
              /\ out'.sweeps = 0
              /\ TableEvents(out'.events) = <<>>
       /\ out'.op = "read" => TransitionNotified
       /\ SetModeRan =>
              (MODE' = out'.msg.arg /\ out'.events = <<Ev("mode_changed", MODE')>>)]_vars

\* the part of C23 the code keeps: the same for the iterations that read
\* config.MODE as manual
CtlManualGatingAsRead ==
    [][/\ (LoopRan /\ out'.op # "read" /\ mth.mode = "manual") =>
              /\ mode_state' = mode_state
              /\ out'.says = <<>>
              /\ out'.sweeps = 0
              /\ out'.events = <<>>
       /\ out'.op = "read" => (TransitionNotified /\ mode_state' = mode_state)
       /\ SetModeRan =>
              (MODE' = out'.msg.arg /\ out'.events = <<Ev("mode_changed", MODE')>>)]_vars

\* in a step: the loop thread ran the treat_now handler, or a part of it
TreatNowRan == CommandRan /\ out'.msg.cmd = "treat_now"

\* C24 - treat_now bypass: the treat_now handler starts in any stage, in
\* either mode, disabled or not and whatever the main thread is doing; it
\* sweeps the servo once and emits treat_given{reason:treat_now} and
\* servo_action{action:sweep}, and neither of its parts changes mode_state
\* or config.MODE.
CtlTreatNow ==
    /\ [](lth.pc = "idle" => ENABLED host_sweep_begin([cmd |-> "treat_now", arg |-> "None"]))
    /\ [][TreatNowRan =>
            /\ mode_state' = mode_state
            /\ MODE' = MODE
            /\ out'.op = "cmd" =>
                  /\ out'.sweeps = 1
                  /\ TreatsGiven(out'.events) = 1
                  /\ out'.events = <<Ev("treat_given", "treat_now"),
                                     Ev("servo_action", "sweep")>>]_vars

\* C24 witness: treat_now has just dispensed during the cooldown, in manual
\* mode and with treats disabled.
CtlTreatNowWitness ==
    /\ out.op = "cmd"
    /\ out.msg.cmd = "treat_now"
    /\ out.sweeps = 1
    /\ mode_state.stage = "cooldown"
    /\ mode_state.treat_disabled
    /\ MODE = "manual"

\* C25 - single control thread, as claimed: no command handler runs while
\* the main thread is inside automatic_mode_logic, so two servo sweeps never
\* overlap and the treat_disabled flag a step has read stays as it is until
\* the step is over.
CtlSingleThread ==
    /\ [](~(MainSweeping /\ lth.pc = "sweep"))
    /\ [](StepInProgress => mode_state.treat_disabled = mth.flag)
    /\ [][CommandRan => ~StepInProgress]_vars

(***************************************************************************)
(* Claims about the collector, checked under ColSpec.                      *)
(***************************************************************************)

\* C7 - match once: an intent record is matched exactly when one
\* command_success was made from it, never more than one, and once matched
\* it stays matched and no later pose_transition makes another
\* command_success from it.
ColMatchOnce ==
    /\ [](\A i \in DOMAIN recent_audio :
            recent_audio[i].nsucc = IF recent_audio[i].matched THEN 1 ELSE 0)
    /\ [][\A i \in DOMAIN recent_audio :
            (Len(recent_audio) < RecentAudioMaxLen /\ recent_audio[i].matched) =>
                /\ recent_audio'[i].matched
                /\ recent_audio'[i].nsucc = recent_audio[i].nsucc]_vars

\* C7 witness: a pose_transition has just been handled that names the
\* posture of an already matched intent inside the window, and it made no
\* command_success.
ColMatchOnceWitness ==
    /\ cout.event = "pose_transition"
    /\ cout.to # None
    /\ cout.success = <<>>
    /\ \E i \in DOMAIN recent_audio :
          /\ recent_audio[i].matched
          /\ recent_audio[i].ts <= cout.timestamp
          /\ cout.timestamp - recent_audio[i].ts <= MatchWindow
          /\ IsSubstr(Lower(cout.to), Lower(recent_audio[i].text))

\* an unmatched intent that names the posture `to` and is at most
\* MatchWindow seconds older than, and not younger than, pose_ts
InWindowIntent(a, to, pose_ts) ==
    /\ ~a.matched
    /\ a.ts <= pose_ts
    /\ pose_ts - a.ts <= MatchWindow
    /\ IsSubstr(Lower(to), Lower(a.text)) \/ IsSubstr(Lower(to), Lower(a.filename))

\* C8 - correlation window: every command_success pairs an intent with a
\* pose_transition that is not older than the intent and at most 5 seconds
\* younger; and a pose_transition for which an unmatched intent naming the
\* posture lies in that window, the gaps 0 and 5 included, makes a
\* command_success.
ColWindow ==
    /\ [](\A i \in DOMAIN cout.success :
            /\ cout.success[i].audio_ts <= cout.success[i].pose_ts
            /\ cout.success[i].pose_ts - cout.success[i].audio_ts <= 5)
    /\ [][(/\ nev' = nev + 1
           /\ cout'.event = "pose_transition"
           /\ cout'.to # None
           /\ \E i \in DOMAIN recent_audio :
                 InWindowIntent(recent_audio[i], cout'.to, cout'.timestamp)) =>
                Len(cout'.success) = 1]_vars

\* C8 witness: a command_success has just been made for a gap of exactly 5
\* seconds, while an older intent naming the posture, 6 seconds before the
\* transition, stays unmatched.
ColWindowWitness ==
    /\ Len(cout.success) = 1
    /\ cout.success[1].pose_ts - cout.success[1].audio_ts = 5
    /\ \E i \in DOMAIN recent_audio :
          /\ ~recent_audio[i].matched
          /\ cout.timestamp - recent_audio[i].ts = 6
          /\ IsSubstr(Lower(cout.to), Lower(recent_audio[i].text))

\* C9 - counter correctness: the dates for which a daily_counters event was
\* emitted are the UTC dates of the treat_given events received and of the
\* command_success events made, and the latest one for a date carries
\* exactly the numbers of those events with that UTC date; a command_success
\* the device echoes back adds nothing.
ColCounters ==
    /\ DOMAIN snaps = DOMAIN seen
    /\ \A d \in DOMAIN seen :
          /\ snaps[d].date = d
          /\ snaps[d].treat_count = seen[d].treat
          /\ snaps[d].command_success_count = seen[d].success

\* C9 witness: counters exist for two dates, one of them with a
\* command_success, and the device's echo of it has just been received.
ColCountersWitness ==
    /\ cout.event = "command_success"
    /\ Cardinality(DOMAIN seen) = 2
    /\ \E d \in DOMAIN seen : seen[d].success = 1 /\ snaps[d].command_success_count = 1
    /\ \E d \in DOMAIN seen : seen[d].treat = 1

\* in a step: a message was handled
Received == nev' = nev + 1

\* C27 - intent buffer bound: recent_audio never holds more than
\* RecentAudioMaxLen entries and holds them in arrival order; every
\* audio_playback event received puts one entry with matched = false at the
\* tail; when the buffer is full the entry at the head, the oldest, and only
\* that one, leaves and the others keep their order; and a command_success
\* is never made from an entry that has left.
ColBufferBound ==
    /\ [](Len(recent_audio) <= RecentAudioMaxLen)
    /\ [](\A i \in DOMAIN recent_audio :
            recent_audio[i].seq = recent_audio[1].seq + i - 1)
    /\ [](\A i \in DOMAIN cout.success :
            /\ cout.success[i].seq >= recent_audio[1].seq
            /\ recent_audio[cout.success[i].entry].seq = cout.success[i].seq)
    /\ [][(Received /\ cout'.event = "audio_playback") =>
            LET n == Len(recent_audio')
                kept == IF Len(recent_audio) = RecentAudioMaxLen
                        THEN Tail(recent_audio)
                        ELSE recent_audio
            IN  /\ n = Len(kept) + 1
                /\ SubSeq(recent_audio', 1, n - 1) = kept
                /\ ~recent_audio'[n].matched
                /\ recent_audio'[n].ts = cout'.timestamp
                /\ recent_audio'[n].seq = next_seq(recent_audio)]_vars

\* C27 witness: the buffer is full, its oldest entry, the sit of DayLen - 5,
\* has left, and the pose_transition to sit just handled, inside the window
\* of that entry, made no command_success.
ColBufferBoundWitness ==
    /\ Len(recent_audio) = RecentAudioMaxLen
    /\ recent_audio[1].seq > 1
    /\ cout.event = "pose_transition"
    /\ cout.to = s_sit
    /\ cout.timestamp - OldIntent(1).ts <= MatchWindow
    /\ cout.success = <<>>

Qualifying(to, pose_ts) ==
    {i \in DOMAIN recent_audio : InWindowIntent(recent_audio[i], to, pose_ts)}

\* C33 - newest first: a pose_transition for which some buffered intent is
\* unmatched, inside the window and names the posture makes exactly one
\* command_success, from the qualifying intent that was appended last
\* (arrival order, whatever the timestamps), marks that intent matched and
\* leaves every other intent as it was.
ColNewestFirst ==
    [][(/\ Received
        /\ cout'.event = "pose_transition"
        /\ cout'.to # None
        /\ Qualifying(cout'.to, cout'.timestamp) # {}) =>
            LET Q == Qualifying(cout'.to, cout'.timestamp)
                n == CHOOSE i \in Q : \A j \in Q : recent_audio[j].seq <= recent_audio[i].seq
            IN  /\ Len(cout'.success) = 1
                /\ cout'.success[1].seq = recent_audio[n].seq
                /\ cout'.success[1].audio_ts = recent_audio[n].ts
                /\ DOMAIN recent_audio' = DOMAIN recent_audio
                /\ recent_audio'[n].matched
                /\ \A i \in DOMAIN recent_audio \ {n} :
                      recent_audio'[i] = recent_audio[i]]_vars

\* C33 witness: a command_success has just been made from the intent that
\* arrived last, while an intent that arrived before it, names the posture,
\* lies in the window and carries a later timestamp stays unmatched.
ColNewestFirstWitness ==
    /\ cout.event = "pose_transition"
    /\ Len(cout.success) = 1
    /\ \E i, j \in DOMAIN recent_audio :
          /\ recent_audio[i].seq = cout.success[1].seq
          /\ recent_audio[i].matched
          /\ recent_audio[j].seq < recent_audio[i].seq
          /\ recent_audio[j].ts > recent_audio[i].ts
          /\ InWindowIntent(recent_audio[j], cout.to, cout.timestamp)

\* how often write_event was called with event `ev` for the message handled
Writes(ev) == Cardinality({i \in DOMAIN cout'.writes : cout'.writes[i] = ev})

\* C34 - no match: a pose_transition whose target is null, or for which no
\* buffered intent qualifies, makes no command_success, changes no intent
\* and no counter, writes no daily_counters event and sends no directive;
\* with or without a match the pose_transition itself is handed to the
\* store exactly once.
ColNoMatch ==
    [][(Received /\ cout'.event = "pose_transition") =>
          /\ Writes("pose_transition") = 1
          /\ (cout'.to = None \/ Qualifying(cout'.to, cout'.timestamp) = {}) =>
                /\ cout'.success = <<>>
                /\ cout'.directives = <<>>
                /\ Writes("command_success") = 0
                /\ Writes("daily_counters") = 0
                /\ pending' = pending
                /\ UNCHANGED <<recent_audio, daily_counters, snaps, stored, series,
                               success_points>>]_vars

\* C34 witness: a pose_transition that names a posture has just been
\* handled and written without a match, while the buffer holds an intent
\* naming that posture: one too old, or one matched before.
ColNoMatchWitness ==
    /\ cout.event = "pose_transition"
    /\ cout.to # None
    /\ cout.success = <<>>
    /\ cout.writes = <<"pose_transition">>
    /\ \E i, j \in DOMAIN recent_audio :
          /\ IsSubstr(Lower(cout.to), Lower(recent_audio[i].text))
          /\ ~recent_audio[i].matched
          /\ cout.timestamp - recent_audio[i].ts > MatchWindow
          /\ IsSubstr(Lower(cout.to), Lower(recent_audio[j].text))
          /\ recent_audio[j].matched

\* the matches made so far: every one added one to a success counter
Matches ==
    LET RECURSIVE Sum(_)
        Sum(D) == IF D = {} THEN 0
                  ELSE LET k == CHOOSE x \in D : TRUE
                       IN  daily_counters[k].success + Sum(D \ {k})
    IN  Sum(DOMAIN daily_counters)

\* C32: every event is written to the store at most once; one match leads to
\* at most one command_success record in the store, also when the device has
\* rebroadcast the command_success and the collector has received it again.
ColAtMostOnce ==
    success_points <= Matches

\* what does hold: a message is handed to write_event once when it is
\* received, and a match adds one command_success write to that
ColWritePerReceipt ==
    [][Received =>
         /\ Cardinality({i \in DOMAIN cout'.writes : cout'.writes[i] = cout'.event}) = 1
         /\ cout'.event # "command_success"
              => success_writes(cout'.writes) = Len(cout'.success)]_vars

(***************************************************************************)
(* Claims about the collector's store, checked under ColStoreSpec.         *)
(***************************************************************************)

\* C30 - storage failure: the counters in memory count every treat_given and
\* every command_success whether or not the daily_counters event was
\* written; a failed write leaves the store as it was and the collector goes
\* on to handle the next message; and a write that succeeds puts the whole
\* count of the date into the store, the increments whose writes failed
\* included.
ColStorageFailure ==
    /\ [](DOMAIN daily_counters = DOMAIN seen)
    /\ [](\A d \in DOMAIN seen : daily_counters[d] = seen[d])
    /\ []((cout.wrote = "failed" /\ nev < MaxEvents) => ENABLED ColStoreNext)
    /\ [][(Received /\ cout'.wrote = "failed") =>
            /\ stored' = stored
            /\ LET d == UtcDate(cout'.timestamp)
               IN  Behind(daily_counters', stored', d) = cout'.behind + 1]_vars
    /\ [][(Received /\ cout'.wrote = "ok") =>
            LET d == UtcDate(cout'.timestamp)
            IN  /\ stored'[d].date = d
                /\ stored'[d].treat_count = seen'[d].treat
                /\ stored'[d].command_success_count = seen'[d].success]_vars

\* C30 witness: a write has just succeeded for a date of which the store
\* had missed two increments, and the store now has the date's whole count.
ColStorageFailureWitness ==
    /\ cout.wrote = "ok"
    /\ cout.behind = 2
    /\ LET d == UtcDate(cout.timestamp)
       IN  /\ stored[d].treat_count + stored[d].command_success_count = 3
           /\ Behind(daily_counters, stored, d) = 0

\* C31: each counter increment hands write_event one daily_counters snapshot
\* with the cumulative counts of its date, and the counts read back for a
\* date through /api/points are those of the latest snapshot written for it,
\* not the sum over the snapshots written for it.
ColSnapshotOverwrite ==
    /\ \A k \in DOMAIN snaps :
          /\ snaps[k].treat_count = daily_counters[k].treat
          /\ snaps[k].command_success_count = daily_counters[k].success
    /\ \A k \in DOMAIN stored :
          /\ k \in DOMAIN points(series, DefaultLimit)
          /\ points(series, DefaultLimit)[k].treat_count = stored[k].treat_count
          /\ points(series, DefaultLimit)[k].command_success_count
                = stored[k].command_success_count

\* what the read path does give: the sum over the snapshots written for the
\* date, which is the latest snapshot only for a date written once
ColSnapshotSum ==
    \A k \in DOMAIN stored :
        /\ k \in DOMAIN points(series, DefaultLimit)
        /\ points(series, DefaultLimit)[k].treat_count
             = agg_sum(series, k, "treat_count")
        /\ Cardinality({i \in DOMAIN series : series[i].date = k}) > 1
             => points(series, DefaultLimit)[k].treat_count
                  + points(series, DefaultLimit)[k].command_success_count
                > stored[k].treat_count + stored[k].command_success_count

(***************************************************************************)
(* Claims about the collector's connection, checked under ColLinkSpec.     *)
(***************************************************************************)

\* C29 - reconnect: a pass of `while True:` that ends, by a refused
\* connection, a lost one or a normal close, is followed by a sleep of
\* reconnect_interval seconds, always the same, and the sleep by another
\* attempt; nothing else ends a connection or an attempt, and the counters
\* and recent_audio survive; if the server ends up reachable for good, the
\* collector is connected again and again.
ColReconnect ==
    /\ [](link \in {"connecting", "connected", "sleeping"})
    /\ [](link = "sleeping" => delay = reconnect_interval)
    /\ [][link' # link =>
            \/ link = "connecting" /\ link' \in {"connected", "sleeping"}
            \/ link = "connected" /\ link' = "sleeping"
            \/ link = "sleeping" /\ link' = "connecting"]_vars
    /\ [][link' # link =>
            (daily_counters' = daily_counters /\ recent_audio' = recent_audio)]_vars
    /\ [](link = "sleeping" => ENABLED col_wake)
    /\ (<>[]hub_up => []<>(link = "connected"))

\* C29 witness: the collector is connected for the second time, after a
\* sleep of reconnect_interval, and still has the counters of the first
\* connection.
ColReconnectWitness ==
    /\ link = "connected"
    /\ nconn = 2
    /\ delay = reconnect_interval
    /\ daily_counters # <<>>

\* C35 - across reconnects: no daily counter ever decreases; the steps of
\* the connection (its loss, the sleep, the reconnect) leave the daily
\* counters and the intent buffer, matched flags included, as they were; and
\* a pose_transition makes a command_success from an intent that qualifies
\* and was received over an earlier connection.
ColAcrossReconnect ==
    /\ [][\A k \in DOMAIN daily_counters :
            /\ k \in DOMAIN daily_counters'
            /\ daily_counters'[k].treat >= daily_counters[k].treat
            /\ daily_counters'[k].success >= daily_counters[k].success]_vars
    /\ [][~Received => UNCHANGED <<recent_audio, daily_counters>>]_vars
    /\ [][(/\ Received
           /\ cout'.event = "pose_transition"
           /\ cout'.to # None
           /\ \E i \in Qualifying(cout'.to, cout'.timestamp) :
                 recent_audio[i].conn < nconn) =>
              Len(cout'.success) = 1]_vars

\* C35 witness: a command_success has just been made, over the second
\* connection, from an intent received over the first, and a counter that
\* was raised over the first connection has its value.
ColAcrossReconnectWitness ==
    /\ cout.event = "pose_transition"
    /\ Len(cout.success) = 1
    /\ cout.success[1].conn = 1
    /\ cout.conn = 2
    /\ \E k \in DOMAIN daily_counters : daily_counters[k].treat > 0

\* C36 - protocol errors: a malformed message (text that is not JSON, a JSON
\* value that is no event envelope, an event envelope whose payload or
\* timestamp has an unexpected type) is dropped or stored as a status record;
\* the connection stays open and the intent buffer and the counters stay as
\* they were.
ColProtocolError ==
    [][(Received /\ cout'.event \in Malformed) =>
          /\ link' = "connected"
          /\ cout'.writes \in {<<>>, <<"status">>}
          /\ UNCHANGED <<recent_audio, daily_counters>>]_vars

\* what does hold: the buffer and the counters stay as they were, and the
\* connection stays open for text that is not JSON and for JSON that is no
\* event envelope
ColProtocolErrorJson ==
    [][(Received /\ cout'.event \in Malformed) =>
          /\ cout'.event \in {"non_json", "not_envelope"} => link' = "connected"
          /\ cout'.writes \in {<<>>, <<"status">>}
          /\ UNCHANGED <<recent_audio, daily_counters>>]_vars

(***************************************************************************)
(* Claims about the device and the collector, checked under AudioSpec.     *)
(***************************************************************************)

\* the intent records made from the audio of operation c
IntentsOf(c) == {i \in DOMAIN recent_audio : recent_audio[i].cmd = c}

\* the command_success events made from them
RECURSIVE SuccessesOf(_)
SuccessesOf(I) ==
    IF I = {} THEN 0
    ELSE LET i == CHOOSE x \in I : TRUE
         IN  recent_audio[i].nsucc + SuccessesOf(I \ {i})

\* C38: one audio command, the automatic sit prompt or an audio command of
\* the host, adds one intent record to the collector's buffer (none while it
\* is on its way), so that at most one command_success is made from it.
OneIntent ==
    \A c \in 1..ncmd :
        /\ Cardinality(IntentsOf(c)) <= 1
        /\ SuccessesOf(IntentsOf(c)) <= 1

(***************************************************************************)
(* Claims about the device's WebSocket server, checked under WsSpec.       *)
(***************************************************************************)

\* C16 - broadcast snapshot: a _send_via_ws call sends to the clients that
\* were in _ws_clients when it took the lock, all of them and no others,
\* whatever connects or disconnects while it is sending; and _ws_clients
\* does not change while a thread is inside list(_ws_clients).
WsBroadcastSnapshot ==
    /\ [](\A th \in Threads : snd[th].pc = "send" =>
            /\ snd[th].clients = snd[th].start
            /\ snd[th].sent \subseteq snd[th].start)
    /\ [][/\ \A th \in Threads :
                (snd[th].pc = "send" /\ snd'[th].pc = "idle") =>
                    snd[th].sent = snd[th].start
          /\ ws_clients' # ws_clients =>
                \A th \in Threads : snd[th].pc # "copy"]_wsVars

\* C16 witness: the main thread has sent to its whole snapshot while one
\* client of the snapshot disconnected and another client connected.
WsBroadcastSnapshotWitness ==
    /\ snd["main"].pc = "send"
    /\ snd["main"].sent = snd["main"].clients
    /\ snd["main"].clients \ ws_clients # {}
    /\ ws_clients \ snd["main"].clients # {}

\* in a step: the _send_via_ws call of thread th returns to send_event
Returns(th) == snd[th].pc = "send" /\ snd'[th].pc = "idle"

\* no client of the call's list has an open connection: every ws.send of the
\* call can only raise ConnectionClosed
Undeliverable(d) == \A u \in d.clients : wcl[u] # "open"

\* C40 - event emission with fallback, as claimed: send_event hands the
\* envelope to every client that was connected when it was emitted, and it
\* goes on to the HTTP fallback exactly when no WebSocket delivery was
\* possible, so that an event emitted while the only client is closing
\* reaches the fallback.
WsEventFallback ==
    [][\A th \in Threads : Returns(th) =>
          /\ snd[th].sent = snd[th].start
          /\ snd'[th].fallback <=> Undeliverable(snd[th])]_wsVars

\* the part of C40 the code keeps: the envelope is handed to every client
\* that was connected when it was emitted, and the HTTP fallback is tried
\* exactly when there was none
WsEventFallbackNoClient ==
    [][\A th \in Threads : Returns(th) =>
          /\ snd[th].sent = snd[th].start
          /\ snd'[th].fallback <=> snd[th].start = {}]_wsVars

\* an event is lost: send_event has returned without trying the fallback,
\* every ws.send it scheduled has run and none wrote the message
WsEventLost ==
    \E th \in Threads :
        /\ snd[th].pc = "idle"
        /\ snd[th].sent # {}
        /\ snd[th].ran = snd[th].sent
        /\ snd[th].got = {}
        /\ ~snd[th].fallback

====
